---- MODULE Spec2Model ----
(***************************************************************************)
(* Model of the sha_game competition tracker: the relational store         *)
(* (database/models.py), the Reconciler (scripts/import_to_db.py), the     *)
(* Score Ledger's toggle handlers (bot/handlers/mandarin.py) and the       *)
(* reverse-sync Sheet Writer (scripts/sheets_updater.py).                  *)
(*                                                                         *)
(* The grid of the program has 10 teams, 7 team tasks per team, 12 member  *)
(* slots per team sheet and 10 personal tasks per member.  The store model *)
(* keeps the code of every operation and scales these four sizes down to   *)
(* the bounds below; the score threshold MAX_PERSONAL_SCORE and the reward *)
(* per team task keep the program's values.                                *)
(***************************************************************************)
EXTENDS Integers, Sequences, FiniteSets, TLC

VARIABLES
    commands,        \* table 'commands'      : row id = index
    users,           \* table 'users'
    command_tasks,   \* table 'command_tasks'
    user_tasks,      \* table 'user_tasks'
    handler,         \* the request being handled: position and outcome
    google_sheet_id, \* Settings.google_sheet_id ("" when not configured)
    sheet,           \* external grid: status cells written by the Sheet Writer
    last_toggle,     \* history: the latest run of committed toggles of one
                     \* personal task with no other request in between (the
                     \* task, the member's score before the run, its length)
    call,            \* a call of a function of the parser or the resolver:
                     \* its name, its arguments and, once returned, its result
    sessions         \* the AsyncSession of each toggle request that runs
                     \* beside others: its position, and the task and the
                     \* owner it has loaded

tables == <<commands, users, command_tasks, user_tasks>>
vars == <<commands, users, command_tasks, user_tasks, handler, google_sheet_id, sheet,
          last_toggle, call, sessions>>

----------------------------------------------------------------------------
(* Program constants *)

MAX_PERSONAL_SCORE == 10
TEAM_TASK_POINTS == 3

(* Bounds of the model (the program's grid: 10 teams, 7 + 10 tasks, 12 slots) *)
NumCommands == 2
NumCommandTasks == 2
NumSlots == 2
NumUserTasks == 2
\* caps on the drift of a score away from zero (scores have no bound in the code)
MaxTeamSteps == 1
MaxDebt == 1
MaxCredit == 1
NumVersions == 2

None == "None"

\* columns of the mapped class User; an attribute outside this set is not
\* loaded from the store and not persisted by a commit
UserColumns ==
    {"id", "first_name", "last_name", "tg_id", "tg_username", "score",
     "sheet_index", "command_id"}

----------------------------------------------------------------------------
(* The store as one value *)

DB == [commands |-> commands, users |-> users,
       command_tasks |-> command_tasks, user_tasks |-> user_tasks]

EmptyDB == [commands |-> <<>>, users |-> <<>>,
            command_tasks |-> <<>>, user_tasks |-> <<>>]

\* ids of the rows of a table that satisfy a WHERE clause
Ids(table) == 1..Len(table)

\* Result.scalar_one_or_none(): no row, the row, or MultipleResultsFound
NoneFound(ids) == ids = {}
MultipleResultsFound(ids) == Cardinality(ids) > 1
One(ids) == CHOOSE i \in ids : TRUE

----------------------------------------------------------------------------
(* Reconciler: scripts/import_to_db.py, import_commands_to_db *)

NoStats ==
    [commands_created |-> 0, commands_updated |-> 0,
     users_created |-> 0, users_updated |-> 0,
     command_tasks_created |-> 0, user_tasks_created |-> 0]

\* Command(number=..., name=..., score=0)
NewCommand(cmd_data) ==
    [number |-> cmd_data.number, name |-> cmd_data.name, score |-> 0]

\* an update that also puts the team's score back to zero
UpdateCommand_ScoreReset(command, cmd_data) ==
    [command EXCEPT !.name = cmd_data.name, !.score = 0]

\* command.name = cmd_data.name
UpdateCommand(command, cmd_data) ==
    [command EXCEPT !.name = cmd_data.name]

\* CommandTask(command_id=..., task_number=..., description=..., is_completed=...)
NewCommandTask(command_id, task_data) ==
    [command_id |-> command_id, task_number |-> task_data.number,
     description |-> task_data.description,
     is_completed |-> task_data.is_completed]

\* User(first_name=..., last_name=..., command_id=..., sheet_index=..., score=0)
NewUser(command_id, user_data) ==
    [first_name |-> user_data.first_name, last_name |-> user_data.last_name,
     command_id |-> command_id, sheet_index |-> user_data.sheet_index,
     score |-> 0]

\* an update that also puts the member's score back to zero
UpdateUser_ScoreReset(user, user_data) ==
    [user EXCEPT !.sheet_index = user_data.sheet_index, !.score = 0]

\* user.sheet_index = user_data.sheet_index
UpdateUser(user, user_data) ==
    [user EXCEPT !.sheet_index = user_data.sheet_index]

\* UserTask(user_id=..., task_number=..., description=..., is_completed=...)
NewUserTask(user_id, task_data) ==
    [user_id |-> user_id, task_number |-> task_data.number,
     description |-> task_data.description,
     is_completed |-> task_data.is_completed]

\* an update that keeps the stored completion flag
UpdateTask_FlagKept(task, task_data) ==
    [task EXCEPT !.description = task_data.description]

\* an update that never takes a completion back
UpdateTask_CompletedWins(task, task_data) ==
    [task EXCEPT !.description = task_data.description,
                 !.is_completed = @ \/ task_data.is_completed]

\* task.description = ...; task.is_completed = ...  (both kinds of task)
UpdateTask(task, task_data) ==
    [task EXCEPT !.description = task_data.description,
                 !.is_completed = task_data.is_completed]

\* select(CommandTask).where(command_id == ..., task_number == ...)
SelectCommandTask(st, command_id, number) ==
    {i \in Ids(st.command_tasks) :
        /\ st.command_tasks[i].command_id = command_id
        /\ st.command_tasks[i].task_number = number}

\* a lookup of personal tasks that finds no row
SelectUserTask_NoneFound(st, user_id, number) == {}

\* select(UserTask).where(user_id == ..., task_number == ...)
SelectUserTask(st, user_id, number) ==
    {i \in Ids(st.user_tasks) :
        /\ st.user_tasks[i].user_id = user_id
        /\ st.user_tasks[i].task_number = number}

\* select(User).where(command_id == ..., first_name == ..., last_name == ...)
SelectUser(st, command_id, user_data) ==
    {i \in Ids(st.users) :
        /\ st.users[i].command_id = command_id
        /\ st.users[i].first_name = user_data.first_name
        /\ st.users[i].last_name = user_data.last_name}

\* select(Command).where(number == ...)
SelectCommand(st, number) ==
    {i \in Ids(st.commands) : st.commands[i].number = number}

\* the loop over cmd_data.tasks, from its k-th element on
RECURSIVE ImportCommandTasks(_, _, _, _)
ImportCommandTasks(st, command_id, tasks, k) ==
    IF k > Len(tasks) \/ ~st.ok THEN st
    ELSE LET task_data == tasks[k]
             ids == SelectCommandTask(st, command_id, task_data.number)
         IN  IF MultipleResultsFound(ids) THEN [st EXCEPT !.ok = FALSE]
             ELSE IF NoneFound(ids) THEN
                 ImportCommandTasks(
                     [st EXCEPT
                        !.command_tasks = Append(@, NewCommandTask(command_id, task_data)),
                        !.stats.command_tasks_created = @ + 1],
                     command_id, tasks, k + 1)
             ELSE
                 ImportCommandTasks(
                     [st EXCEPT
                        !.command_tasks[One(ids)] = UpdateTask(@, task_data)],
                     command_id, tasks, k + 1)

\* the loop over user_data.tasks, from its k-th element on
RECURSIVE ImportUserTasks(_, _, _, _)
ImportUserTasks(st, user_id, tasks, k) ==
    IF k > Len(tasks) \/ ~st.ok THEN st
    ELSE LET task_data == tasks[k]
             ids == SelectUserTask(st, user_id, task_data.number)
         IN  IF MultipleResultsFound(ids) THEN [st EXCEPT !.ok = FALSE]
             ELSE IF NoneFound(ids) THEN
                 ImportUserTasks(
                     [st EXCEPT
                        !.user_tasks = Append(@, NewUserTask(user_id, task_data)),
                        !.stats.user_tasks_created = @ + 1],
                     user_id, tasks, k + 1)
             ELSE
                 ImportUserTasks(
                     [st EXCEPT
                        !.user_tasks[One(ids)] = UpdateTask(@, task_data)],
                     user_id, tasks, k + 1)

\* the loop over cmd_data.users, from its k-th element on
RECURSIVE ImportUsers(_, _, _, _)
ImportUsers(st, command_id, user_list, k) ==
    IF k > Len(user_list) \/ ~st.ok THEN st
    ELSE LET user_data == user_list[k]
             ids == SelectUser(st, command_id, user_data)
         IN  IF MultipleResultsFound(ids) THEN [st EXCEPT !.ok = FALSE]
             ELSE IF NoneFound(ids) THEN
                 LET created == [st EXCEPT
                                   !.users = Append(@, NewUser(command_id, user_data)),
                                   !.stats.users_created = @ + 1]
                 IN  ImportUsers(
                         ImportUserTasks(created, Len(created.users), user_data.tasks, 1),
                         command_id, user_list, k + 1)
             ELSE
                 LET updated == [st EXCEPT
                                   !.users[One(ids)] = UpdateUser(@, user_data),
                                   !.stats.users_updated = @ + 1]
                 IN  ImportUsers(
                         ImportUserTasks(updated, One(ids), user_data.tasks, 1),
                         command_id, user_list, k + 1)

\* the loop over parsed_data, from its k-th element on
RECURSIVE ImportCommands(_, _, _)
ImportCommands(st, parsed_data, k) ==
    IF k > Len(parsed_data) \/ ~st.ok THEN st
    ELSE LET cmd_data == parsed_data[k]
             ids == SelectCommand(st, cmd_data.number)
         IN  IF MultipleResultsFound(ids) THEN [st EXCEPT !.ok = FALSE]
             ELSE LET st1 == IF NoneFound(ids)
                             THEN [st EXCEPT
                                     !.commands = Append(@, NewCommand(cmd_data)),
                                     !.stats.commands_created = @ + 1]
                             ELSE [st EXCEPT
                                     !.commands[One(ids)] = UpdateCommand(@, cmd_data),
                                     !.stats.commands_updated = @ + 1]
                      command_id == IF NoneFound(ids) THEN Len(st1.commands) ELSE One(ids)
                      st2 == ImportCommandTasks(st1, command_id, cmd_data.tasks, 1)
                      st3 == ImportUsers(st2, command_id, cmd_data.users, 1)
                  IN  ImportCommands(st3, parsed_data, k + 1)

\* an import that first drops the members and their tasks, so that the store
\* holds the members of the snapshot only
import_commands_to_db_Purge(db, parsed_data) ==
    ImportCommands(
        [commands |-> db.commands, users |-> <<>>,
         command_tasks |-> db.command_tasks, user_tasks |-> <<>>,
         stats |-> NoStats, ok |-> TRUE],
        parsed_data, 1)

\* import_commands_to_db(session, parsed_data) on store db: the session's
\* state at 'await session.commit()' with the returned stats; ok = FALSE when
\* a statement raised, and then nothing is committed
import_commands_to_db(db, parsed_data) ==
    ImportCommands(
        [commands |-> db.commands, users |-> db.users,
         command_tasks |-> db.command_tasks, user_tasks |-> db.user_tasks,
         stats |-> NoStats, ok |-> TRUE],
        parsed_data, 1)

----------------------------------------------------------------------------
(* Snapshots in the shape scripts/parser.py parse_all returns them *)

Blank == <<>>

\* texts of the grid, in NumVersions editions: label of team n, description
\* of task row i
Versions == 1..NumVersions
NameText(v, n) == <<"name", v, n>>
DescriptionText(v, i) == <<"task", v, i>>

\* TaskData(number, description, is_completed) for rows 1..count
TaskRows(v, count, done) ==
    [i \in 1..count |->
        [number |-> i, description |-> DescriptionText(v, i),
         is_completed |-> i \in done]]

\* the slots of a sheet whose label is not blank, in slot order
RECURSIVE OccupiedSlots(_, _)
OccupiedSlots(labels, k) ==
    IF k > Len(labels) THEN <<>>
    ELSE IF labels[k] = Blank THEN OccupiedSlots(labels, k + 1)
    ELSE <<k>> \o OccupiedSlots(labels, k + 1)

\* parse_users_sheet: one UserData per occupied slot, sheet_index = slot (0-based)
UserRows(v, cmd_num, labels, udone) ==
    LET occ == OccupiedSlots(labels, 1)
    IN  [j \in 1..Len(occ) |->
            [last_name |-> labels[occ[j]][1], first_name |-> labels[occ[j]][2],
             command_number |-> cmd_num, sheet_index |-> occ[j] - 1,
             tasks |-> TaskRows(v, NumUserTasks, udone[occ[j]])]]

\* parse_all: every team of the team sheet, each with its member sheet
ParsedData(g) ==
    [n \in 1..NumCommands |->
        [number |-> n, name |-> NameText(g.v, n),
         tasks |-> TaskRows(g.v, NumCommandTasks, g.cdone[n]),
         users |-> UserRows(g.v, n, g.labels[n], g.udone[n])]]

----------------------------------------------------------------------------
(* Parser: scripts/parser.py, the texts of cells *)

\* A text is a sequence of characters.  The Cyrillic letters of the program's
\* literals are written in Latin transliteration.
EmptyText == <<>>

UpperCase == <<"S", "D", "E", "L", "A", "N", "O", "V", "Y", "P">>
LowerCase == <<"s", "d", "e", "l", "a", "n", "o", "v", "y", "p">>
Whitespace == {" "}

\* str.lower(), character by character
LowerChar(ch) ==
    IF \E i \in DOMAIN UpperCase : UpperCase[i] = ch
    THEN LowerCase[CHOOSE i \in DOMAIN UpperCase : UpperCase[i] = ch]
    ELSE ch
Lower(text) == [i \in DOMAIN text |-> LowerChar(text[i])]

\* 'marker in text'
Contains(text, marker) ==
    \E k \in 0..(Len(text) - Len(marker)) :
        SubSeq(text, k + 1, k + Len(marker)) = marker

\* str.strip()
Strip(text) ==
    LET kept == {i \in DOMAIN text : text[i] \notin Whitespace}
    IN  IF kept = {} THEN EmptyText
        ELSE SubSeq(text, CHOOSE i \in kept : \A j \in kept : i <= j,
                          CHOOSE i \in kept : \A j \in kept : i >= j)

\* str.split(): the words between runs of whitespace
RECURSIVE Split(_)
Split(text) ==
    LET t == Strip(text)
        gaps == {i \in DOMAIN t : t[i] \in Whitespace}
    IN  IF t = EmptyText THEN <<>>
        ELSE IF gaps = {} THEN <<t>>
        ELSE LET g == CHOOSE i \in gaps : \A j \in gaps : i <= j
             IN  <<SubSeq(t, 1, g - 1)>> \o Split(SubSeq(t, g + 1, Len(t)))

\* the done markers of is_completed
MarkerSdelano == <<"s", "d", "e", "l", "a", "n", "o">>
MarkerVypolneno == <<"v", "y", "p", "o", "l", "n", "e", "n", "o">>

\* a test of the markers that does not lower the text first
is_completed_CaseSensitive(value) ==
    IF value = EmptyText THEN FALSE
    ELSE Contains(value, MarkerSdelano) \/ Contains(value, MarkerVypolneno)

\* is_completed(value); 'not value' holds for the empty text
is_completed(value) ==
    IF value = EmptyText THEN FALSE
    ELSE Contains(Lower(value), MarkerSdelano) \/ Contains(Lower(value), MarkerVypolneno)

\* parse_name(full_name): (last_name, first_name)
parse_name(full_name) ==
    LET parts == Split(Strip(full_name))
    IN  IF Len(parts) >= 2 THEN <<parts[1], parts[2]>>
        ELSE IF Len(parts) = 1 THEN <<parts[1], EmptyText>>
        ELSE <<EmptyText, EmptyText>>

----------------------------------------------------------------------------
(* Parser: scripts/parser.py, the cells of a fetched sheet *)

\* all_values is the list of rows worksheet.get_all_values() returned, each
\* row a list of texts; Python index k is element k + 1 here.

\* (col, row, cmd_num) of the label cell of each team, 0-indexed
command_positions ==
    << <<0, 0, 1>>, <<3, 0, 2>>, <<7, 0, 3>>, <<11, 0, 4>>, <<15, 0, 5>>,
       <<0, 8, 6>>, <<3, 8, 7>>, <<7, 8, 8>>, <<11, 8, 9>>, <<15, 8, 10>> >>

\* (col, row) of the label cell of each member slot, 0-indexed
user_positions ==
    << <<0, 0>>,  <<3, 0>>,  <<6, 0>>,  <<9, 0>>,
       <<0, 11>>, <<3, 11>>, <<6, 11>>, <<9, 11>>,
       <<0, 22>>, <<3, 22>>, <<6, 22>>, <<9, 22>> >>

\* range(7) and range(10): the task rows under a team and under a member
COMMAND_TASK_ROWS == 7
USER_TASK_ROWS == 10

\* all_values[row][col]
Item(all_values, row, col) ==
    IF row < Len(all_values) /\ col < Len(all_values[row + 1])
    THEN [raised |-> None, value |-> all_values[row + 1][col + 1]]
    ELSE [raised |-> "IndexError"]

\* a read with no test of the bounds and no handler of IndexError
ReadCell_Unguarded(all_values, row, col, default) == Item(all_values, row, col)

\* 'all_values[row][col] if row < len(all_values) and col < len(all_values[row])
\* else default' inside 'try ... except IndexError', which yields default too
ReadCell(all_values, row, col, default) ==
    LET r == IF row < Len(all_values) /\ col < Len(all_values[row + 1])
             THEN Item(all_values, row, col)
             ELSE [raised |-> None, value |-> default]
    IN  IF r.raised = "IndexError" THEN [raised |-> None, value |-> default] ELSE r

AnyRaised(results) == \E k \in DOMAIN results : results[k].raised # None
Values(results) == [k \in DOMAIN results |-> results[k].value]

\* f"{cmd_num} komanda", f"Komandnoe zadanie {n}", f"Individualnoe zadanie {n}"
GeneratedName(cmd_num) == <<ToString(cmd_num), " ", "komanda">>
CommandTaskPlaceholder(number) == <<"Komandnoe", " ", "zadanie", " ", ToString(number)>>
UserTaskPlaceholder(number) == <<"Individualnoe", " ", "zadanie", " ", ToString(number)>>

\* 'description.strip() if description else placeholder' (and the same
\* expression for a team's name)
Described(description, placeholder) ==
    IF description # EmptyText THEN Strip(description) ELSE placeholder

\* the body of the loop over the task rows: TaskData of task number
ParseTask(all_values, col, row, number, placeholder) ==
    LET task_row == row + 1 + (number - 1)
        description == ReadCell(all_values, task_row, col, EmptyText)
        status == ReadCell(all_values, task_row, col + 1, EmptyText)
    IN  IF description.raised # None \/ status.raised # None
        THEN [raised |-> "IndexError"]
        ELSE [raised |-> None,
              value |-> [number |-> number,
                         description |-> Described(description.value, placeholder),
                         is_completed |-> is_completed(status.value)]]

\* parse_commands_sheet on the fetched rows: CommandData of every team
\* position, in the order of the table
parse_commands_sheet(all_values) ==
    LET ParseCommand(k) ==
            LET col == command_positions[k][1]
                row == command_positions[k][2]
                cmd_num == command_positions[k][3]
                name == ReadCell(all_values, row, col, GeneratedName(cmd_num))
                tasks == [n \in 1..COMMAND_TASK_ROWS |->
                            ParseTask(all_values, col, row, n, CommandTaskPlaceholder(n))]
            IN  IF name.raised # None \/ AnyRaised(tasks)
                THEN [raised |-> "IndexError"]
                ELSE [raised |-> None,
                      value |-> [number |-> cmd_num,
                                 name |-> Described(name.value, GeneratedName(cmd_num)),
                                 tasks |-> Values(tasks),
                                 users |-> <<>>]]
        parsed == [k \in DOMAIN command_positions |-> ParseCommand(k)]
    IN  IF AnyRaised(parsed) THEN [raised |-> "IndexError"]
        ELSE [raised |-> None, value |-> Values(parsed)]

\* the loop of parse_users_sheet from slot user_index (0-indexed) on
RECURSIVE ParseUsers(_, _, _)
ParseUsers(all_values, command_number, user_index) ==
    IF user_index >= Len(user_positions) THEN [raised |-> None, value |-> <<>>]
    ELSE LET col == user_positions[user_index + 1][1]
             row == user_positions[user_index + 1][2]
             full_name == ReadCell(all_values, row, col, EmptyText)
             rest == ParseUsers(all_values, command_number, user_index + 1)
         IN  IF full_name.raised # None \/ rest.raised # None
             THEN [raised |-> "IndexError"]
             ELSE IF full_name.value = EmptyText \/ Strip(full_name.value) = EmptyText
             THEN rest
             ELSE LET tasks == [n \in 1..USER_TASK_ROWS |->
                                  ParseTask(all_values, col, row, n, UserTaskPlaceholder(n))]
                      names == parse_name(full_name.value)
                  IN  IF AnyRaised(tasks) THEN [raised |-> "IndexError"]
                      ELSE [raised |-> None,
                            value |-> <<[last_name |-> names[1],
                                         first_name |-> names[2],
                                         command_number |-> command_number,
                                         sheet_index |-> user_index,
                                         tasks |-> Values(tasks)]>> \o rest.value]

\* a parse that numbers the members by their place in the returned list
parse_users_sheet_ListIndex(all_values, command_number) ==
    LET r == ParseUsers(all_values, command_number, 0)
    IN  IF r.raised # None THEN r
        ELSE [r EXCEPT !.value = [k \in DOMAIN r.value |->
                                    [r.value[k] EXCEPT !.sheet_index = k - 1]]]

parse_users_sheet(all_values, command_number) == ParseUsers(all_values, command_number, 0)

----------------------------------------------------------------------------
(* GridLayout Resolver and Sheet Writer: scripts/sheets_updater.py *)

\* team number -> (col, row) of the team's label cell, 0-indexed
COMMAND_POSITIONS ==
    << <<0, 0>>, <<3, 0>>, <<7, 0>>, <<11, 0>>, <<15, 0>>,
       <<0, 8>>, <<3, 8>>, <<7, 8>>, <<11, 8>>, <<15, 8>> >>

\* member slots laid out one column apart, so that the status column of a
\* slot is the label column of its neighbour
USER_POSITIONS_Adjacent ==
    << <<0, 0>>,  <<1, 0>>,  <<2, 0>>,  <<3, 0>>,
       <<0, 11>>, <<1, 11>>, <<2, 11>>, <<3, 11>>,
       <<0, 22>>, <<1, 22>>, <<2, 22>>, <<3, 22>> >>

\* member slot -> (col, row) of the member's label cell; Python index i is
\* element i + 1 here
USER_POSITIONS ==
    << <<0, 0>>,  <<3, 0>>,  <<6, 0>>,  <<9, 0>>,
       <<0, 11>>, <<3, 11>>, <<6, 11>>, <<9, 11>>,
       <<0, 22>>, <<3, 22>>, <<6, 22>>, <<9, 22>> >>

\* a resolver that returns the cell of the description, left of the status
get_command_task_cell_Description(command_number, task_number) ==
    IF command_number \notin DOMAIN COMMAND_POSITIONS
    THEN [raised |-> "ValueError"]
    ELSE LET col == COMMAND_POSITIONS[command_number][1]
             row == COMMAND_POSITIONS[command_number][2]
         IN  [raised |-> None, row |-> (row + task_number) + 1, col |-> col + 1]

\* (row, col), 1-indexed, of the status cell of a team task, or ValueError
get_command_task_cell(command_number, task_number) ==
    IF command_number \notin DOMAIN COMMAND_POSITIONS
    THEN [raised |-> "ValueError"]
    ELSE LET col == COMMAND_POSITIONS[command_number][1]
             row == COMMAND_POSITIONS[command_number][2]
         IN  [raised |-> None, row |-> (row + task_number) + 1, col |-> (col + 1) + 1]

\* a resolver that counts the task rows from the label row of the slot
get_user_task_cell_LabelRow(user_index, task_number) ==
    IF user_index >= Len(USER_POSITIONS) THEN [raised |-> "ValueError"]
    ELSE IF user_index < -Len(USER_POSITIONS) THEN [raised |-> "IndexError"]
    ELSE LET k == IF user_index >= 0 THEN user_index + 1
                  ELSE user_index + Len(USER_POSITIONS) + 1
             col == USER_POSITIONS[k][1]
             row == USER_POSITIONS[k][2]
         IN  [raised |-> None, row |-> row + task_number, col |-> (col + 1) + 1]

\* (row, col), 1-indexed, of the status cell of a personal task, or an error;
\* a negative index counts from the end of the list, as Python indexes it
get_user_task_cell(user_index, task_number) ==
    IF user_index >= Len(USER_POSITIONS) THEN [raised |-> "ValueError"]
    ELSE IF user_index < -Len(USER_POSITIONS) THEN [raised |-> "IndexError"]
    ELSE LET k == IF user_index >= 0 THEN user_index + 1
                  ELSE user_index + Len(USER_POSITIONS) + 1
             col == USER_POSITIONS[k][1]
             row == USER_POSITIONS[k][2]
         IN  [raised |-> None, row |-> (row + task_number) + 1, col |-> (col + 1) + 1]

\* worksheet titles: the team-task sheet and the member sheet of team n
CommandsSheet == "komandy"
UsersSheet(command_number) == ToString(command_number)

GREEN_COLOR == "green"
WHITE_COLOR == "white"
\* a status text that holds no done marker
DoneText_Gotovo == <<"G", "o", "t", "o", "v", "o">>
DoneText == <<"S", "d", "e", "l", "a", "n", "o">>

\* the status cells of the modelled part of the grid
StatusCells ==
    {<<CommandsSheet, get_command_task_cell(n, t).row, get_command_task_cell(n, t).col>> :
        n \in 1..NumCommands, t \in 1..NumCommandTasks}
    \cup
    {<<UsersSheet(n), get_user_task_cell(i, t).row, get_user_task_cell(i, t).col>> :
        n \in 1..NumCommands, i \in 0..(NumSlots - 1), t \in 1..NumUserTasks}

EmptySheet == [c \in StatusCells |-> [text |-> EmptyText, bg |-> None]]

\* what the environment lets a reverse-sync call do: credentials.json
\* missing, worksheet missing, the text write refused, the text written and
\* the format call refused, or both calls served
SyncFates == {"FileNotFoundError", "WorksheetNotFound", "APIError", "APIErrorFormat", "ok"}

\* update_command_task_status / update_user_task_status under fate f:
\* the exception raised (None when it returns) and the grid afterwards
WriteStatus(grid, title, cell, completed, f) ==
    IF f = "FileNotFoundError" THEN [raised |-> f, sheet |-> grid]
    ELSE IF f = "WorksheetNotFound" THEN [raised |-> f, sheet |-> grid]
    ELSE IF cell.raised # None THEN [raised |-> cell.raised, sheet |-> grid]
    ELSE LET c == <<title, cell.row, cell.col>>
             text == IF completed THEN DoneText ELSE EmptyText
             bg == IF completed THEN GREEN_COLOR ELSE WHITE_COLOR
         IN  IF f = "APIError" THEN [raised |-> "APIError", sheet |-> grid]
             ELSE IF f = "APIErrorFormat"
             THEN [raised |-> "APIError", sheet |-> [grid EXCEPT ![c].text = text]]
             ELSE [raised |-> None,
                   sheet |-> [grid EXCEPT ![c] = [text |-> text, bg |-> bg]]]

\* the requests one call of update_command_task_status or of
\* update_user_task_status sends to the external grid under fate f, in the
\* order of its statements; time.sleep is not among them
WriterRequests(cell, f) ==
    IF f = "FileNotFoundError" THEN <<>>
    ELSE IF f = "WorksheetNotFound" \/ cell.raised # None
    THEN <<"open_by_key", "worksheet">>
    ELSE IF f = "APIError" THEN <<"open_by_key", "worksheet", "update_acell">>
    ELSE <<"open_by_key", "worksheet", "update_acell", "format">>

update_command_task_status(grid, command_number, task_number, completed, f) ==
    WriteStatus(grid, CommandsSheet,
                get_command_task_cell(command_number, task_number), completed, f)

update_user_task_status(grid, command_number, user_index, task_number, completed, f) ==
    WriteStatus(grid, UsersSheet(command_number),
                get_user_task_cell(user_index, task_number), completed, f)

----------------------------------------------------------------------------
(* Score Ledger: bot/handlers/mandarin.py *)

\* the handler: its position (idle, sync = committed and about to reverse-sync,
\* done, raised = ended by an exception before any commit), the request it
\* serves and how the request ended
Handler(pc, op, id, out) == [pc |-> pc, op |-> op, id |-> id, out |-> out]
Idle == Handler("idle", None, 0, None)

NoToggle == [id |-> 0, score |-> 0, n |-> 0]

\* no function is being called
NoCall == [fn |-> None, args |-> <<>>, returned |-> FALSE, out |-> FALSE]

\* the toggle requests that may run beside each other, and the session of
\* a request that holds nothing
Requests == {1, 2}
NoSession ==
    [pc |-> "idle", op |-> None, task_id |-> 0,
     task |-> [is_completed |-> FALSE], owner |-> [score |-> 0]]
NoSessions == [r \in Requests |-> NoSession]

\* a new request is taken when no request is being handled
Ready == handler.pc \in {"idle", "done", "raised"}

\* reading user.max_reached_at on an instance loaded by this request raises
\* AttributeError unless the attribute is a mapped column of User
MaxReachedAtRaises == "max_reached_at" \notin UserColumns

\* a toggle that does not take the point back when a task is un-completed
UserTaskToggled_NoRefund(task, user) ==
    LET completed == ~task.is_completed
        score == IF completed THEN user.score + 1 ELSE user.score
    IN  IF completed /\ score = MAX_PERSONAL_SCORE /\ MaxReachedAtRaises
        THEN [raised |-> "AttributeError"]
        ELSE [raised |-> None,
              task |-> [task EXCEPT !.is_completed = completed],
              user |-> [user EXCEPT !.score = score]]

\* a toggle that keeps the member's score at zero or above
UserTaskToggled_Floor(task, user) ==
    LET completed == ~task.is_completed
        score == IF completed THEN user.score + 1
                 ELSE IF user.score > 0 THEN user.score - 1 ELSE 0
    IN  IF completed /\ score = MAX_PERSONAL_SCORE /\ MaxReachedAtRaises
        THEN [raised |-> "AttributeError"]
        ELSE [raised |-> None,
              task |-> [task EXCEPT !.is_completed = completed],
              user |-> [user EXCEPT !.score = score]]

\* a toggle that reaches the maximum without reading or setting the
\* timestamp
UserTaskToggled_NoTimestamp(task, user) ==
    LET completed == ~task.is_completed
        score == IF completed THEN user.score + 1 ELSE user.score - 1
    IN  [raised |-> None,
         task |-> [task EXCEPT !.is_completed = completed],
         user |-> [user EXCEPT !.score = score]]

\* callback_toggle_user_task, lines 216-236: the session's task and user
\* after the toggle, or the exception raised before the commit
UserTaskToggled(task, user) ==
    LET completed == ~task.is_completed
        score == IF completed THEN user.score + 1 ELSE user.score - 1
    IN  IF completed /\ score = MAX_PERSONAL_SCORE /\ MaxReachedAtRaises
        THEN [raised |-> "AttributeError"]
        ELSE [raised |-> None,
              task |-> [task EXCEPT !.is_completed = completed],
              user |-> [user EXCEPT !.score = score]]

\* a toggle that awards a team task one point, as a personal task
CommandTaskToggled_OnePoint(task, command) ==
    LET completed == ~task.is_completed
        score == IF completed THEN command.score + 1 ELSE command.score - 1
    IN  [task |-> [task EXCEPT !.is_completed = completed],
         command |-> [command EXCEPT !.score = score]]

\* a toggle that keeps the team's score at zero or above
CommandTaskToggled_Floor(task, command) ==
    LET completed == ~task.is_completed
        score == IF completed THEN command.score + TEAM_TASK_POINTS
                 ELSE IF command.score > TEAM_TASK_POINTS
                 THEN command.score - TEAM_TASK_POINTS
                 ELSE 0
    IN  [task |-> [task EXCEPT !.is_completed = completed],
         command |-> [command EXCEPT !.score = score]]

\* callback_toggle_command_task, lines 298-309
CommandTaskToggled(task, command) ==
    LET completed == ~task.is_completed
        score == IF completed THEN command.score + TEAM_TASK_POINTS
                 ELSE command.score - TEAM_TASK_POINTS
    IN  [task |-> [task EXCEPT !.is_completed = completed],
         command |-> [command EXCEPT !.score = score]]

\* a handler that writes the new status to the grid before it commits
ToggleUserTask_WriteFirst(task_id) ==
    /\ Ready
    /\ task_id \in Ids(user_tasks)
    /\ last_toggle' = NoToggle
    /\ UNCHANGED <<commands, command_tasks, google_sheet_id, call, sessions>>
    /\ LET task == user_tasks[task_id]
           user == users[task.user_id]
           r == UserTaskToggled(task, user)
           w == update_user_task_status(sheet, commands[user.command_id].number,
                    user.sheet_index, task.task_number, ~task.is_completed, "ok")
       IN  /\ sheet' = w.sheet
           /\ IF r.raised # None
              THEN /\ handler' = Handler("raised", "utask", task_id, r.raised)
                   /\ UNCHANGED <<users, user_tasks>>
              ELSE /\ user_tasks' = [user_tasks EXCEPT ![task_id] = r.task]
                   /\ users' = [users EXCEPT ![task.user_id] = r.user]
                   /\ handler' = Handler("done", "utask", 0, "ok")

\* a handler that also moves the team's score with the member's, as the
\* earlier version of the handler did
ToggleUserTask_TeamScore(task_id) ==
    /\ Ready
    /\ UNCHANGED <<command_tasks, google_sheet_id, sheet, call, sessions>>
    /\ IF task_id \notin Ids(user_tasks)
       THEN /\ handler' = Handler("done", "utask", 0, "not found")
            /\ last_toggle' = NoToggle
            /\ UNCHANGED <<commands, users, user_tasks>>
       ELSE LET task == user_tasks[task_id]
                r == UserTaskToggled(task, users[task.user_id])
            IN  IF r.raised # None
                THEN /\ handler' = Handler("raised", "utask", task_id, r.raised)
                     /\ last_toggle' = NoToggle
                     /\ UNCHANGED <<commands, users, user_tasks>>
                ELSE /\ user_tasks' = [user_tasks EXCEPT ![task_id] = r.task]
                     /\ users' = [users EXCEPT ![task.user_id] = r.user]
                     /\ commands' = [commands EXCEPT
                            ![users[task.user_id].command_id].score =
                                @ + r.user.score - users[task.user_id].score]
                     /\ handler' = Handler("sync", "utask", task_id, "committed")
                     /\ last_toggle' =
                            IF last_toggle.id = task_id /\ last_toggle.n = 1
                            THEN [last_toggle EXCEPT !.n = 2]
                            ELSE [id |-> task_id, score |-> users[task.user_id].score,
                                  n |-> 1]

\* callback "utask:<task_id>" up to 'await session.commit()'
ToggleUserTask(task_id) ==
    /\ Ready
    /\ UNCHANGED <<commands, command_tasks, google_sheet_id, sheet, call, sessions>>
    /\ IF task_id \notin Ids(user_tasks)
       THEN /\ handler' = Handler("done", "utask", 0, "not found")
            /\ last_toggle' = NoToggle
            /\ UNCHANGED <<users, user_tasks>>
       ELSE LET task == user_tasks[task_id]
                r == UserTaskToggled(task, users[task.user_id])
            IN  IF r.raised # None
                THEN /\ handler' = Handler("raised", "utask", task_id, r.raised)
                     /\ last_toggle' = NoToggle
                     /\ UNCHANGED <<users, user_tasks>>
                ELSE /\ user_tasks' = [user_tasks EXCEPT ![task_id] = r.task]
                     /\ users' = [users EXCEPT ![task.user_id] = r.user]
                     /\ handler' = Handler("sync", "utask", task_id, "committed")
                     /\ last_toggle' =
                            IF last_toggle.id = task_id /\ last_toggle.n = 1
                            THEN [last_toggle EXCEPT !.n = 2]
                            ELSE [id |-> task_id, score |-> users[task.user_id].score,
                                  n |-> 1]

\* callback "ctask:<task_id>" up to 'await session.commit()'
ToggleCommandTask(task_id) ==
    /\ Ready
    /\ last_toggle' = NoToggle
    /\ UNCHANGED <<users, user_tasks, google_sheet_id, sheet, call, sessions>>
    /\ IF task_id \notin Ids(command_tasks)
       THEN /\ handler' = Handler("done", "ctask", 0, "not found")
            /\ UNCHANGED <<commands, command_tasks>>
       ELSE LET task == command_tasks[task_id]
                r == CommandTaskToggled(task, commands[task.command_id])
            IN  /\ command_tasks' = [command_tasks EXCEPT ![task_id] = r.task]
                /\ commands' = [commands EXCEPT ![task.command_id] = r.command]
                /\ handler' = Handler("sync", "ctask", task_id, "committed")

\* the reverse-sync call of the handler at pc = "sync", under fate f
SyncCall(f) ==
    IF handler.op = "utask"
    THEN LET task == user_tasks[handler.id]
             user == users[task.user_id]
         IN  update_user_task_status(sheet, commands[user.command_id].number,
                 user.sheet_index, task.task_number, task.is_completed, f)
    ELSE LET task == command_tasks[handler.id]
         IN  update_command_task_status(sheet, commands[task.command_id].number,
                 task.task_number, task.is_completed, f)

\* a reverse-sync whose exceptions are not caught
Sync_Uncaught(f) ==
    /\ handler.pc = "sync"
    /\ UNCHANGED <<commands, users, command_tasks, user_tasks, google_sheet_id,
                   last_toggle, call, sessions>>
    /\ IF google_sheet_id = ""
       THEN /\ sheet' = sheet
            /\ handler' = Handler("done", handler.op, 0, "skipped")
       ELSE LET r == SyncCall(f)
            IN  /\ sheet' = r.sheet
                /\ handler' = IF r.raised = None
                              THEN Handler("done", handler.op, 0, "ok")
                              ELSE Handler("raised", handler.op, 0, r.raised)

\* a handler that writes the status to the grid only when the task has
\* become completed
Sync_DoneOnly(f) ==
    /\ handler.pc = "sync"
    /\ UNCHANGED <<commands, users, command_tasks, user_tasks, google_sheet_id,
                   last_toggle, call, sessions>>
    /\ IF google_sheet_id = ""
       THEN /\ sheet' = sheet
            /\ handler' = Handler("done", handler.op, 0, "skipped")
       ELSE LET r == SyncCall(f)
                completed == IF handler.op = "utask"
                             THEN user_tasks[handler.id].is_completed
                             ELSE command_tasks[handler.id].is_completed
            IN  /\ sheet' = IF completed THEN r.sheet ELSE sheet
                /\ handler' = Handler("done", handler.op, 0,
                                      IF r.raised = None THEN "ok" ELSE r.raised)

\* the try/except after the commit: the write is skipped without a sheet id,
\* any exception of the call is caught and logged, and the handler goes on
Sync(f) ==
    /\ handler.pc = "sync"
    /\ UNCHANGED <<commands, users, command_tasks, user_tasks, google_sheet_id,
                   last_toggle, call, sessions>>
    /\ IF google_sheet_id = ""
       THEN /\ sheet' = sheet
            /\ handler' = Handler("done", handler.op, 0, "skipped")
       ELSE LET r == SyncCall(f)
            IN  /\ sheet' = r.sheet
                /\ handler' = Handler("done", handler.op, 0,
                                      IF r.raised = None THEN "ok" ELSE r.raised)

\* the bot is restarted with another GOOGLE_SHEET_ID in its environment
\* (get_settings caches the value for the life of the process)
Configure(id) ==
    /\ Ready
    /\ google_sheet_id # id
    /\ google_sheet_id' = id
    /\ handler' = Idle
    /\ last_toggle' = NoToggle
    /\ UNCHANGED <<commands, users, command_tasks, user_tasks, sheet, call, sessions>>

\* /sosi_parsing with the snapshot parse_all returned: import_commands_to_db
\* commits, or raises and leaves the store as it was
Reconcile(parsed_data) ==
    /\ Ready
    /\ google_sheet_id # ""
    /\ last_toggle' = NoToggle
    /\ UNCHANGED <<google_sheet_id, sheet, call, sessions>>
    /\ LET r == import_commands_to_db(DB, parsed_data)
       IN  IF r.ok
           THEN /\ commands' = r.commands
                /\ users' = r.users
                /\ command_tasks' = r.command_tasks
                /\ user_tasks' = r.user_tasks
                /\ handler' = Handler("done", "sosi_parsing", 0, "committed")
           ELSE /\ UNCHANGED tables
                /\ handler' = Handler("raised", "sosi_parsing", 0, "MultipleResultsFound")

----------------------------------------------------------------------------
(* Environment: the grids the organizers present and the requests issued *)

Commands == 1..NumCommands
Slots == 1..NumSlots

NoLabels == [k \in Slots |-> Blank]
NoneDone == [k \in Slots |-> {}]

Ivan == <<"Ivanov", "Ivan">>
Petr == <<"Ivanov", "Petr">>

\* a grid: an edition v of its texts, the completed team tasks of each team,
\* the labels of the slots of team 1's member sheet (the other member sheets
\* hold no label) and the completed personal tasks of each of its slots
Grid(v, cdone, labels, udone) ==
    [v |-> v, cdone |-> cdone,
     labels |-> [n \in Commands |-> IF n = 1 THEN labels ELSE NoLabels],
     udone |-> [n \in Commands |-> IF n = 1 THEN udone ELSE NoneDone]]

\* status columns: nothing done (p = 0), or one task done per team and per
\* slot, a different row for neighbours (p = 1)
CommandsDone(p) ==
    [n \in Commands |-> IF p = 0 THEN {} ELSE {((n - 1) % NumCommandTasks) + 1}]
SlotsDone(p) ==
    [k \in Slots |-> IF p = 0 THEN {} ELSE {((k - 1) % NumUserTasks) + 1}]

\* labels of a member sheet: two members, the two swapped, one member, the
\* other member in the second slot, the same name in two slots
LabelRows ==
    {[k \in Slots |-> IF k = 1 THEN Ivan ELSE IF k = 2 THEN Petr ELSE Blank],
     [k \in Slots |-> IF k = 1 THEN Petr ELSE IF k = 2 THEN Ivan ELSE Blank],
     [k \in Slots |-> IF k = 1 THEN Ivan ELSE Blank],
     [k \in Slots |-> IF k = 2 THEN Petr ELSE Blank],
     [k \in Slots |-> IF k <= 2 THEN Ivan ELSE Blank]}

\* grids of team sheets only: every status column, no member
TeamGrids ==
    {Grid(v, cd, NoLabels, NoneDone) :
        v \in Versions, cd \in [Commands -> SUBSET (1..NumCommandTasks)]}

\* grids with members
MemberGrids ==
    {Grid(v, CommandsDone(p), lr, SlotsDone(p)) :
        v \in Versions, lr \in LabelRows, p \in {0, 1}}

\* the drift caps: a toggle is requested only while the score stays in range
UserScoreInRange(task_id) ==
    task_id \in Ids(user_tasks) =>
        LET task == user_tasks[task_id]
            score == users[task.user_id].score
        IN  IF task.is_completed THEN score > -MaxDebt ELSE score < MaxCredit

CommandScoreInRange(task_id) ==
    task_id \in Ids(command_tasks) =>
        LET task == command_tasks[task_id]
            score == commands[task.command_id].score
        IN  IF task.is_completed THEN score > -(TEAM_TASK_POINTS * MaxTeamSteps)
            ELSE score < TEAM_TASK_POINTS * MaxTeamSteps

Init ==
    /\ commands = <<>>
    /\ users = <<>>
    /\ command_tasks = <<>>
    /\ user_tasks = <<>>
    /\ handler = Idle
    /\ google_sheet_id = "sheet"
    /\ sheet = EmptySheet
    /\ last_toggle = NoToggle
    /\ call = NoCall
    /\ sessions = NoSessions

\* one member sheet with one member
OneMemberGrids ==
    {Grid(1, CommandsDone(p), [k \in Slots |-> IF k = 1 THEN Ivan ELSE Blank], SlotsDone(p)) :
        p \in {0, 1}}

\* only the lower cap: the score may climb to the maximum
UserDebtInRange(task_id) ==
    task_id \in Ids(user_tasks) =>
        LET task == user_tasks[task_id]
        IN  task.is_completed => users[task.user_id].score > -MaxDebt

\* the store: every kind of grid row, and the toggles of the first personal
\* and the first team task; the writer's calls are refused
Next ==
    \/ \E g \in MemberGrids : Reconcile(ParsedData(g))
    \/ \E t \in {1} : UserScoreInRange(t) /\ ToggleUserTask(t)
    \/ \E t \in {1} : CommandScoreInRange(t) /\ ToggleCommandTask(t)
    \/ Sync("APIError")

Spec == Init /\ [][Next]_vars

\* team sheets and team-task toggles; the writer's calls are refused
NextTeams ==
    \/ \E g \in TeamGrids : Reconcile(ParsedData(g))
    \/ \E t \in 1..(Len(command_tasks) + 1) : CommandScoreInRange(t) /\ ToggleCommandTask(t)
    \/ Sync("APIError")

SpecTeams == Init /\ [][NextTeams]_vars

\* one member whose score may reach MAX_PERSONAL_SCORE
NextMax ==
    \/ \E g \in OneMemberGrids : Reconcile(ParsedData(g))
    \/ \E t \in 1..(Len(user_tasks) + 1) : UserDebtInRange(t) /\ ToggleUserTask(t)
    \/ Sync("APIError")

SpecMax == Init /\ [][NextMax]_vars

\* the reverse-sync under every fate of the writer's calls, with and without
\* a configured sheet id; the first personal task's owner may reach the maximum
NextSync ==
    \/ \E g \in OneMemberGrids : Reconcile(ParsedData(g))
    \/ \E t \in {1} : UserDebtInRange(t) /\ ToggleUserTask(t)
    \/ \E t \in {1} : CommandScoreInRange(t) /\ ToggleCommandTask(t)
    \/ \E f \in SyncFates : Sync(f)
    \/ \E id \in {"", "sheet"} : Configure(id)

SpecSync == Init /\ [][NextSync]_vars

----------------------------------------------------------------------------
(* Toggle requests that run beside each other: bot/handlers/mandarin.py.
   Every request has its own session; a handler yields at each await, so
   another request may run between its SELECT and its commit. *)

Session(pc, op, task_id, task, owner) ==
    [pc |-> pc, op |-> op, task_id |-> task_id, task |-> task, owner |-> owner]

\* callback "utask:<task_id>", 'await session.execute(select(UserTask)...)':
\* the session of request r loads the task and its user
LoadUserTask(r, task_id) ==
    /\ sessions[r].pc \in {"idle", "done"}
    /\ task_id \in Ids(user_tasks)
    /\ sessions' = [sessions EXCEPT ![r] =
            Session("loaded", "utask", task_id, user_tasks[task_id],
                    users[user_tasks[task_id].user_id])]
    /\ UNCHANGED <<tables, handler, google_sheet_id, sheet, last_toggle, call>>

\* callback "ctask:<task_id>", 'await session.execute(select(CommandTask)...)'
LoadCommandTask(r, task_id) ==
    /\ sessions[r].pc \in {"idle", "done"}
    /\ task_id \in Ids(command_tasks)
    /\ sessions' = [sessions EXCEPT ![r] =
            Session("loaded", "ctask", task_id, command_tasks[task_id],
                    commands[command_tasks[task_id].command_id])]
    /\ UNCHANGED <<tables, handler, google_sheet_id, sheet, last_toggle, call>>

\* a commit that flips the flag and moves the score of the rows as the
\* store holds them, not as the session loaded them
CommitToggle_StoreRows(r) ==
    /\ sessions[r].pc = "loaded"
    /\ UNCHANGED <<handler, google_sheet_id, sheet, last_toggle, call>>
    /\ LET s == sessions[r]
       IN  IF s.op = "utask"
           THEN LET t == UserTaskToggled(user_tasks[s.task_id], users[s.task.user_id])
                IN  IF t.raised # None
                    THEN /\ sessions' = [sessions EXCEPT ![r].pc = "done"]
                         /\ UNCHANGED tables
                    ELSE /\ user_tasks' = [user_tasks EXCEPT
                                ![s.task_id].is_completed = t.task.is_completed]
                         /\ users' = [users EXCEPT ![s.task.user_id].score = t.user.score]
                         /\ sessions' = [sessions EXCEPT ![r] =
                                Session("sync", s.op, s.task_id, t.task, t.user)]
                         /\ UNCHANGED <<commands, command_tasks>>
           ELSE LET t == CommandTaskToggled(command_tasks[s.task_id],
                                            commands[s.task.command_id])
                IN  /\ command_tasks' = [command_tasks EXCEPT
                            ![s.task_id].is_completed = t.task.is_completed]
                    /\ commands' = [commands EXCEPT
                            ![s.task.command_id].score = t.command.score]
                    /\ sessions' = [sessions EXCEPT ![r] =
                            Session("sync", s.op, s.task_id, t.task, t.command)]
                    /\ UNCHANGED <<users, user_tasks>>

\* the handler of request r from its SELECT to 'await session.commit()':
\* it flips the flag and moves the score of the objects it loaded, and the
\* commit writes the changed columns, is_completed and score, as values
CommitToggle(r) ==
    /\ sessions[r].pc = "loaded"
    /\ UNCHANGED <<handler, google_sheet_id, sheet, last_toggle, call>>
    /\ LET s == sessions[r]
       IN  IF s.op = "utask"
           THEN LET t == UserTaskToggled(s.task, s.owner)
                IN  IF t.raised # None
                    THEN /\ sessions' = [sessions EXCEPT ![r].pc = "done"]
                         /\ UNCHANGED tables
                    ELSE /\ user_tasks' = [user_tasks EXCEPT
                                ![s.task_id].is_completed = t.task.is_completed]
                         /\ users' = [users EXCEPT ![s.task.user_id].score = t.user.score]
                         /\ sessions' = [sessions EXCEPT ![r] =
                                Session("sync", s.op, s.task_id, t.task, t.user)]
                         /\ UNCHANGED <<commands, command_tasks>>
           ELSE LET t == CommandTaskToggled(s.task, s.owner)
                IN  /\ command_tasks' = [command_tasks EXCEPT
                            ![s.task_id].is_completed = t.task.is_completed]
                    /\ commands' = [commands EXCEPT
                            ![s.task.command_id].score = t.command.score]
                    /\ sessions' = [sessions EXCEPT ![r] =
                            Session("sync", s.op, s.task_id, t.task, t.command)]
                    /\ UNCHANGED <<users, user_tasks>>

\* the reverse-sync of request r after its commit, served by the grid: the
\* flag of the session's task goes to the task's status cell
SyncSession(r) ==
    /\ sessions[r].pc = "sync"
    /\ sessions' = [sessions EXCEPT ![r].pc = "done"]
    /\ UNCHANGED <<tables, handler, google_sheet_id, last_toggle, call>>
    /\ LET s == sessions[r]
       IN  IF google_sheet_id = "" THEN sheet' = sheet
           ELSE IF s.op = "utask"
           THEN sheet' = update_user_task_status(sheet,
                             commands[s.owner.command_id].number, s.owner.sheet_index,
                             s.task.task_number, s.task.is_completed, "ok").sheet
           ELSE sheet' = update_command_task_status(sheet, s.owner.number,
                             s.task.task_number, s.task.is_completed, "ok").sheet

\* the store is filled by one reconcile; then two requests toggle the first
\* personal task and the first team task
NextRace ==
    \/ \E g \in OneMemberGrids : Len(commands) = 0 /\ Reconcile(ParsedData(g))
    \/ \E r \in Requests, t \in {1} : UserScoreInRange(t) /\ LoadUserTask(r, t)
    \/ \E r \in Requests, t \in {1} : CommandScoreInRange(t) /\ LoadCommandTask(r, t)
    \/ \E r \in Requests : CommitToggle(r)
    \/ \E r \in Requests : SyncSession(r)

SpecRace == Init /\ [][NextRace]_vars

\* the store is filled by one reconcile; then two requests toggle the two
\* personal tasks of the member
NextMemberRace ==
    \/ \E g \in OneMemberGrids : Len(commands) = 0 /\ Reconcile(ParsedData(g))
    \/ \E r \in Requests, t \in 1..NumUserTasks :
            UserScoreInRange(t) /\ LoadUserTask(r, t)
    \/ \E r \in Requests : CommitToggle(r)
    \/ \E r \in Requests : SyncSession(r)

SpecMemberRace == Init /\ [][NextMemberRace]_vars

----------------------------------------------------------------------------
(* /sosi_parsing requests that run beside each other: import_commands_to_db
   works in the session of its request, inside one transaction that only
   'await session.commit()' (line 125) ends; a session that is closed
   without a commit is rolled back *)

\* the session of a /sosi_parsing request: the store as it read it (db) and
\* the rows as it holds them (st), with the exception it raised, if any
ImportSession(pc, st, db, out) ==
    [pc |-> pc, op |-> "sosi_parsing", st |-> st, db |-> db, out |-> out]

\* the rows a session added to a table
Created(held, read) == SubSeq(held, Len(read) + 1, Len(held))

\* the id the database gives to a row the session created, the store having
\* grown since the session read it
NewId(id, read, stored) ==
    IF id > Len(read) THEN id + (Len(stored) - Len(read)) ELSE id

\* the INSERT of a team whose number the store already holds:
\* Command.number is unique
IntegrityError(s) ==
    \E i \in DOMAIN Created(s.st.commands, s.db.commands) :
        \E c \in Ids(commands) :
            commands[c].number = Created(s.st.commands, s.db.commands)[i].number

\* the columns the import assigns, written where the session changed them
CommittedCommands(s) ==
    [c \in Ids(commands) |->
        IF c <= Len(s.db.commands) /\ s.st.commands[c].name # s.db.commands[c].name
        THEN [commands[c] EXCEPT !.name = s.st.commands[c].name]
        ELSE commands[c]]
    \o Created(s.st.commands, s.db.commands)

CommittedUsers(s) ==
    LET created == Created(s.st.users, s.db.users)
    IN  [u \in Ids(users) |->
            IF /\ u <= Len(s.db.users)
               /\ s.st.users[u].sheet_index # s.db.users[u].sheet_index
            THEN [users[u] EXCEPT !.sheet_index = s.st.users[u].sheet_index]
            ELSE users[u]]
        \o [i \in DOMAIN created |->
                [created[i] EXCEPT
                    !.command_id = NewId(@, s.db.commands, commands)]]

\* description and is_completed of a task the session changed
CommittedTask(stored, held, read) ==
    [stored EXCEPT
        !.description = IF held.description # read.description
                        THEN held.description ELSE @,
        !.is_completed = IF held.is_completed # read.is_completed
                         THEN held.is_completed ELSE @]

CommittedCommandTasks(s) ==
    LET created == Created(s.st.command_tasks, s.db.command_tasks)
    IN  [t \in Ids(command_tasks) |->
            IF t <= Len(s.db.command_tasks)
            THEN CommittedTask(command_tasks[t], s.st.command_tasks[t],
                               s.db.command_tasks[t])
            ELSE command_tasks[t]]
        \o [i \in DOMAIN created |->
                [created[i] EXCEPT
                    !.command_id = NewId(@, s.db.commands, commands)]]

CommittedUserTasks(s) ==
    LET created == Created(s.st.user_tasks, s.db.user_tasks)
    IN  [t \in Ids(user_tasks) |->
            IF t <= Len(s.db.user_tasks)
            THEN CommittedTask(user_tasks[t], s.st.user_tasks[t],
                               s.db.user_tasks[t])
            ELSE user_tasks[t]]
        \o [i \in DOMAIN created |->
                [created[i] EXCEPT !.user_id = NewId(@, s.db.users, users)]]

\* an import whose flushes are kept when it raises
BeginImport_FlushKept(r, parsed_data) ==
    /\ sessions[r].pc \in {"idle", "done", "raised"}
    /\ google_sheet_id # ""
    /\ UNCHANGED <<google_sheet_id, sheet, last_toggle, call>>
    /\ LET st == import_commands_to_db(DB, parsed_data)
       IN  IF st.ok
           THEN /\ sessions' = [sessions EXCEPT ![r] =
                        ImportSession("imported", st, DB, None)]
                /\ handler' = Handler("done", "sosi_parsing", r, "imported")
                /\ UNCHANGED tables
           ELSE /\ sessions' = [sessions EXCEPT ![r] =
                        ImportSession("raised", st, DB, "MultipleResultsFound")]
                /\ handler' = Handler("raised", "sosi_parsing", r, "MultipleResultsFound")
                /\ commands' = st.commands
                /\ users' = st.users
                /\ command_tasks' = st.command_tasks
                /\ user_tasks' = st.user_tasks

\* /sosi_parsing of request r, lines 31-124 of import_commands_to_db: the
\* statements up to the commit, in the session's transaction; a statement
\* that raises ends the request, and the session is closed uncommitted
BeginImport(r, parsed_data) ==
    /\ sessions[r].pc \in {"idle", "done", "raised"}
    /\ google_sheet_id # ""
    /\ UNCHANGED <<tables, google_sheet_id, sheet, last_toggle, call>>
    /\ LET st == import_commands_to_db(DB, parsed_data)
       IN  IF st.ok
           THEN /\ sessions' = [sessions EXCEPT ![r] =
                        ImportSession("imported", st, DB, None)]
                /\ handler' = Handler("done", "sosi_parsing", r, "imported")
           ELSE /\ sessions' = [sessions EXCEPT ![r] =
                        ImportSession("raised", st, DB, "MultipleResultsFound")]
                /\ handler' = Handler("raised", "sosi_parsing", r, "MultipleResultsFound")

\* 'await session.commit()', line 125.  The INSERT of a team that another
\* request has committed meanwhile is refused (it waits for that commit at
\* the flush of line 45), and the request ends without a commit
CommitImport(r) ==
    /\ sessions[r].pc = "imported"
    /\ UNCHANGED <<google_sheet_id, sheet, last_toggle, call>>
    /\ LET s == sessions[r]
       IN  IF IntegrityError(s)
           THEN /\ sessions' = [sessions EXCEPT ![r] =
                        ImportSession("raised", s.st, s.db, "IntegrityError")]
                /\ handler' = Handler("raised", "sosi_parsing", r, "IntegrityError")
                /\ UNCHANGED tables
           ELSE /\ commands' = CommittedCommands(s)
                /\ users' = CommittedUsers(s)
                /\ command_tasks' = CommittedCommandTasks(s)
                /\ user_tasks' = CommittedUserTasks(s)
                /\ sessions' = [sessions EXCEPT ![r] =
                        ImportSession("done", s.st, s.db, None)]
                /\ handler' = Handler("done", "sosi_parsing", r, "committed")

\* grids of the team sheet alone and with one member, in every edition
ImportGrids ==
    {Grid(1, CommandsDone(0), NoLabels, NoneDone)} \cup
    {Grid(v, CommandsDone(p), [k \in Slots |-> IF k = 1 THEN Ivan ELSE Blank],
          SlotsDone(p)) : v \in Versions, p \in {0, 1}}

NextImport ==
    \/ \E r \in Requests, g \in ImportGrids : BeginImport(r, ParsedData(g))
    \/ \E r \in Requests : CommitImport(r)

SpecImport == Init /\ [][NextImport]_vars

----------------------------------------------------------------------------
(* Calls of the functions of the resolver and of the parser *)

Call(fn, args) == [fn |-> fn, args |-> args, returned |-> FALSE, out |-> FALSE]
Returned(c, out) == [c EXCEPT !.returned = TRUE, !.out = out]

\* team ordinals and slot indexes inside and outside the fixed tables
TeamOrdinals == (-1)..(Len(COMMAND_POSITIONS) + 2)
SlotIndexes == (-(Len(USER_POSITIONS) + 1))..(Len(USER_POSITIONS) + 1)

\* status texts: a core with something before and after it
UpperChar(ch) ==
    IF \E i \in DOMAIN LowerCase : LowerCase[i] = ch
    THEN UpperCase[CHOOSE i \in DOMAIN LowerCase : LowerCase[i] = ch]
    ELSE ch
Upper(text) == [i \in DOMAIN text |-> UpperChar(text[i])]

StatusCores ==
    {EmptyText, MarkerSdelano, MarkerVypolneno, DoneText,
     Upper(MarkerSdelano), Upper(MarkerVypolneno),
     <<"s", "D", "e", "L", "a", "N", "o">>,
     <<"v", "y", "p", "O", "L", "N", "E", "n", "o">>,
     SubSeq(MarkerSdelano, 1, 6), SubSeq(MarkerVypolneno, 2, 9),
     <<"s", "d", "e", " ", "l", "a", "n", "o">>,
     <<"n", "e", "t">>, <<"d", "o", "n", "e">>}
StatusAffixes == {EmptyText, <<" ">>, <<"n", "e", " ">>, <<"!">>}
StatusTexts == {p \o c \o q : p \in StatusAffixes, c \in StatusCores, q \in StatusAffixes}

\* the texts a cell may hold: nothing, blanks, the writer's done text, a
\* padded two-word text, a done marker
CellKinds ==
    <<EmptyText, <<" ">>, DoneText, <<" ", "Ivanov", " ", "Ivan", " ">>, MarkerVypolneno>>

\* fetched rows: row r has as many cells as its parity allows; the kinds of
\* the cells cycle along rows and columns, shifted by s
Fetched(s, rows, even_cols, odd_cols) ==
    [r \in 1..rows |->
        [c \in 1..(IF r % 2 = 0 THEN even_cols ELSE odd_cols) |->
            CellKinds[((3 * r + c + s) % Len(CellKinds)) + 1]]]

Shifts == 0..(Len(CellKinds) - 1)

\* shapes of the team-task sheet (16 rows of 17 cells when complete) and of
\* a member sheet (33 rows of 11 cells)
CommandsSheets ==
    {Fetched(s, rows, ec, oc) :
        s \in Shifts, rows \in {0, 1, 5, 9, 16}, ec \in {0, 1, 8, 17}, oc \in {0, 1, 8, 17}}
UsersSheets ==
    {Fetched(s, rows, ec, oc) :
        s \in Shifts, rows \in {0, 1, 12, 23, 33}, ec \in {0, 1, 5, 11}, oc \in {0, 1, 5, 11}}

\* the calls made: one of a function on one input
CallInput(c) ==
    \/ \E n \in TeamOrdinals, t \in 1..COMMAND_TASK_ROWS :
            c = Call("get_command_task_cell", <<n, t>>)
    \/ \E i \in SlotIndexes, t \in 1..USER_TASK_ROWS :
            c = Call("get_user_task_cell", <<i, t>>)
    \/ \E text \in StatusTexts : c = Call("is_completed", <<text>>)
    \/ \E all_values \in CommandsSheets : c = Call("parse_commands_sheet", <<all_values>>)
    \/ \E all_values \in UsersSheets : c = Call("parse_users_sheet", <<all_values, 3>>)

InitCalls ==
    /\ commands = <<>>
    /\ users = <<>>
    /\ command_tasks = <<>>
    /\ user_tasks = <<>>
    /\ handler = Idle
    /\ google_sheet_id = "sheet"
    /\ sheet = EmptySheet
    /\ last_toggle = NoToggle
    /\ CallInput(call)
    /\ sessions = NoSessions

Pending(fn) == call.fn = fn /\ ~call.returned
HasReturned(fn) == call.fn = fn /\ call.returned

ReturnCommandTaskCell ==
    /\ Pending("get_command_task_cell")
    /\ call' = Returned(call, get_command_task_cell(call.args[1], call.args[2]))
    /\ UNCHANGED <<tables, handler, google_sheet_id, sheet, last_toggle, sessions>>

ReturnUserTaskCell ==
    /\ Pending("get_user_task_cell")
    /\ call' = Returned(call, get_user_task_cell(call.args[1], call.args[2]))
    /\ UNCHANGED <<tables, handler, google_sheet_id, sheet, last_toggle, sessions>>

ReturnIsCompleted ==
    /\ Pending("is_completed")
    /\ call' = Returned(call, is_completed(call.args[1]))
    /\ UNCHANGED <<tables, handler, google_sheet_id, sheet, last_toggle, sessions>>

ReturnParseCommandsSheet ==
    /\ Pending("parse_commands_sheet")
    /\ call' = Returned(call, parse_commands_sheet(call.args[1]))
    /\ UNCHANGED <<tables, handler, google_sheet_id, sheet, last_toggle, sessions>>

ReturnParseUsersSheet ==
    /\ Pending("parse_users_sheet")
    /\ call' = Returned(call, parse_users_sheet(call.args[1], call.args[2]))
    /\ UNCHANGED <<tables, handler, google_sheet_id, sheet, last_toggle, sessions>>

NextCalls ==
    \/ ReturnCommandTaskCell
    \/ ReturnUserTaskCell
    \/ ReturnIsCompleted
    \/ ReturnParseCommandsSheet
    \/ ReturnParseUsersSheet

SpecCalls == InitCalls /\ [][NextCalls]_vars

----------------------------------------------------------------------------
(* The Sheet Writer and the Parser on one workbook *)

\* the member sheets the workbook holds, by team number
MemberSheets == {1, 10}

\* extent of the team-task sheet and of a member sheet: the last task row
\* and the last status column of the layout, 1-indexed
CommandsExtent == [rows |-> 8 + COMMAND_TASK_ROWS + 1, cols |-> 15 + 2]
UsersExtent == [rows |-> 22 + USER_TASK_ROWS + 1, cols |-> 9 + 2]

WorkbookCells ==
    {<<CommandsSheet, r, c>> : r \in 1..CommandsExtent.rows, c \in 1..CommandsExtent.cols}
    \cup {<<UsersSheet(n), r, c>> :
            n \in MemberSheets, r \in 1..UsersExtent.rows, c \in 1..UsersExtent.cols}

\* a workbook whose cells hold the kinds of text in turn, shifted by s, and
\* a workbook with no text at all
FilledWorkbook(s) ==
    [cell \in WorkbookCells |->
        [text |-> CellKinds[((3 * cell[2] + cell[3] + s) % Len(CellKinds)) + 1],
         bg |-> None]]
BlankWorkbook == [cell \in WorkbookCells |-> [text |-> EmptyText, bg |-> None]]
Workbooks == {BlankWorkbook} \cup {FilledWorkbook(s) : s \in {0, 2}}

Largest(S) == IF S = {} THEN 0 ELSE CHOOSE x \in S : \A y \in S : x >= y

\* worksheet.get_all_values() on sheet title of the workbook: the rows up to
\* the last cell that holds text, each as wide as the widest of them
get_all_values(grid, title) ==
    LET used == {cell \in DOMAIN grid : cell[1] = title /\ grid[cell].text # EmptyText}
        rows == Largest({cell[2] : cell \in used})
        cols == Largest({cell[3] : cell \in used})
    IN  [r \in 1..rows |-> [c \in 1..cols |-> grid[<<title, r, c>>].text]]

InitRoundTrip ==
    /\ commands = <<>>
    /\ users = <<>>
    /\ command_tasks = <<>>
    /\ user_tasks = <<>>
    /\ handler = Idle
    /\ google_sheet_id = "sheet"
    /\ sheet \in Workbooks
    /\ last_toggle = NoToggle
    /\ call = NoCall
    /\ sessions = NoSessions

\* update_command_task_status(sheet id, command_number, task_number, completed)
WriteCommandTaskStatus(command_number, task_number, completed) ==
    /\ call.fn = None
    /\ LET r == update_command_task_status(sheet, command_number, task_number,
                                           completed, "ok")
       IN  /\ sheet' = r.sheet
           /\ call' = Returned(Call("update_command_task_status",
                                    <<command_number, task_number, completed>>),
                               [raised |-> r.raised,
                                requests |-> WriterRequests(
                                    get_command_task_cell(command_number, task_number),
                                    "ok")])
    /\ UNCHANGED <<tables, handler, google_sheet_id, last_toggle, sessions>>

\* update_user_task_status(sheet id, command_number, user_index, task_number, completed)
WriteUserTaskStatus(command_number, user_index, task_number, completed) ==
    /\ call.fn = None
    /\ LET r == update_user_task_status(sheet, command_number, user_index, task_number,
                                        completed, "ok")
       IN  /\ sheet' = r.sheet
           /\ call' = Returned(Call("update_user_task_status",
                                    <<command_number, user_index, task_number, completed>>),
                               [raised |-> r.raised,
                                requests |-> WriterRequests(
                                    get_user_task_cell(user_index, task_number),
                                    "ok")])
    /\ UNCHANGED <<tables, handler, google_sheet_id, last_toggle, sessions>>

\* the team-task sheet is fetched and parsed after a write to it
ParseCommandsWritten ==
    /\ HasReturned("update_command_task_status")
    /\ LET all_values == get_all_values(sheet, "komandy")
       IN  call' = Returned(Call("parse_commands_sheet", <<all_values>>),
                            parse_commands_sheet(all_values))
    /\ UNCHANGED <<tables, handler, google_sheet_id, sheet, last_toggle, sessions>>

\* the member sheet of a team is fetched and parsed after a write to it
ParseUsersWritten ==
    /\ HasReturned("update_user_task_status")
    /\ LET cmd_num == call.args[1]
           all_values == get_all_values(sheet, ToString(cmd_num))
       IN  call' = Returned(Call("parse_users_sheet", <<all_values, cmd_num>>),
                            parse_users_sheet(all_values, cmd_num))
    /\ UNCHANGED <<tables, handler, google_sheet_id, sheet, last_toggle, sessions>>

NextRoundTrip ==
    \/ \E n \in 1..10, t \in 1..COMMAND_TASK_ROWS, completed \in BOOLEAN :
            WriteCommandTaskStatus(n, t, completed)
    \/ \E n \in MemberSheets, i \in 0..11, t \in 1..USER_TASK_ROWS, completed \in BOOLEAN :
            WriteUserTaskStatus(n, i, t, completed)
    \/ ParseCommandsWritten
    \/ ParseUsersWritten

SpecRoundTrip == InitRoundTrip /\ [][NextRoundTrip]_vars

----------------------------------------------------------------------------
(* parse_all and /sosi_parsing on a workbook: scripts/parser.py,
   bot/handlers/parsing.py *)

\* a workbook with a member in slot 0 of sheet "1", whose first task is
\* done, a member in slot 11 of sheet "10", and the first task of team 1 done
RosterWorkbook ==
    [cell \in WorkbookCells |->
        [text |-> IF cell \in {<<"1", 1, 1>>, <<"10", 23, 10>>}
                  THEN <<"Ivanov", " ", "Ivan">>
                  ELSE IF cell \in {<<"1", 2, 2>>, <<"komandy", 2, 2>>}
                  THEN DoneText
                  ELSE EmptyText,
         bg |-> None]]

\* what the environment lets one parse do: credentials.json there or not,
\* the worksheets the spreadsheet lacks, and the request that the service
\* refuses with an APIError (None, the opening of the spreadsheet, or the
\* read of one worksheet)
ParseFate(credentials, missing, failing) ==
    [credentials |-> credentials, missing |-> missing, failing |-> failing]
ParseFates ==
    {ParseFate(FALSE, {}, None), ParseFate(TRUE, {}, "open_by_key")}
    \cup {ParseFate(TRUE, missing, failing) :
            missing \in {{}, {"komandy"}, {"1"}, {"1", "10"}},
            failing \in {None, "komandy", "10"}}

\* spreadsheet.worksheet(title).get_all_values() under fate f
ReadSheet(grid, title, f) ==
    IF f.failing = title THEN [raised |-> "APIError"]
    ELSE IF title \in f.missing \/ \A cell \in DOMAIN grid : cell[1] # title
    THEN [raised |-> "WorksheetNotFound"]
    ELSE [raised |-> None, value |-> get_all_values(grid, title)]

\* commands[cmd_num].users = users, when cmd_num is a key of commands
WithUsers(commands_list, cmd_num, user_list) ==
    [k \in DOMAIN commands_list |->
        IF commands_list[k].number = cmd_num
        THEN [commands_list[k] EXCEPT !.users = user_list]
        ELSE commands_list[k]]

\* the loop of parse_all over the member sheets, from cmd_num on
RECURSIVE ParseMemberSheets(_, _, _, _)
ParseMemberSheets(grid, f, commands_list, cmd_num) ==
    IF cmd_num > 10 THEN [raised |-> None, value |-> commands_list]
    ELSE LET users_sheet == ReadSheet(grid, ToString(cmd_num), f)
         IN  IF users_sheet.raised = "WorksheetNotFound"
             THEN ParseMemberSheets(grid, f, commands_list, cmd_num + 1)
             ELSE IF users_sheet.raised # None THEN [raised |-> users_sheet.raised]
             ELSE LET parsed == parse_users_sheet(users_sheet.value, cmd_num)
                  IN  IF parsed.raised # None THEN [raised |-> parsed.raised]
                      ELSE ParseMemberSheets(grid, f,
                               WithUsers(commands_list, cmd_num, parsed.value),
                               cmd_num + 1)

\* a parse_all that treats a refused read of a member sheet as a sheet that
\* is not found
parse_all_SkipRefused(grid, f) ==
    IF ~f.credentials THEN [raised |-> "FileNotFoundError"]
    ELSE IF f.failing = "open_by_key" THEN [raised |-> "APIError"]
    ELSE LET commands_sheet == ReadSheet(grid, "komandy", f)
         IN  IF commands_sheet.raised # None THEN [raised |-> commands_sheet.raised]
             ELSE LET parsed == parse_commands_sheet(commands_sheet.value)
                  IN  IF parsed.raised # None THEN [raised |-> parsed.raised]
                      ELSE ParseMemberSheets(grid,
                               [f EXCEPT !.missing = @ \cup {f.failing}, !.failing = None],
                               parsed.value, 1)

\* a parse_all that opens the spreadsheet before it looks for credentials.json
parse_all_OpenFirst(grid, f) ==
    IF f.failing = "open_by_key" THEN [raised |-> "APIError"]
    ELSE IF ~f.credentials THEN [raised |-> "FileNotFoundError"]
    ELSE LET commands_sheet == ReadSheet(grid, "komandy", f)
         IN  IF commands_sheet.raised # None THEN [raised |-> commands_sheet.raised]
             ELSE LET parsed == parse_commands_sheet(commands_sheet.value)
                  IN  IF parsed.raised # None THEN [raised |-> parsed.raised]
                      ELSE ParseMemberSheets(grid, f, parsed.value, 1)

\* parse_all(spreadsheet_id) on the workbook under fate f: the exception
\* raised, or None and the list of CommandData
parse_all(grid, f) ==
    IF ~f.credentials THEN [raised |-> "FileNotFoundError"]
    ELSE IF f.failing = "open_by_key" THEN [raised |-> "APIError"]
    ELSE LET commands_sheet == ReadSheet(grid, "komandy", f)
         IN  IF commands_sheet.raised # None THEN [raised |-> commands_sheet.raised]
             ELSE LET parsed == parse_commands_sheet(commands_sheet.value)
                  IN  IF parsed.raised # None THEN [raised |-> parsed.raised]
                      ELSE ParseMemberSheets(grid, f, parsed.value, 1)

\* /sosi_parsing: parse_all, then import_commands_to_db with what it
\* returned; FileNotFoundError is reported and swallowed, any other
\* exception is reported and raised again
SosiParsing(f) ==
    /\ Ready
    /\ last_toggle' = NoToggle
    /\ UNCHANGED <<google_sheet_id, sheet, sessions>>
    /\ IF google_sheet_id = ""
       THEN /\ handler' = Handler("done", "sosi_parsing", 0, "no sheet id")
            /\ UNCHANGED <<tables, call>>
       ELSE LET parsed_data == parse_all(sheet, f)
            IN  /\ call' = Returned(Call("parse_all", <<google_sheet_id, f>>), parsed_data)
                /\ IF parsed_data.raised = "FileNotFoundError"
                   THEN /\ handler' = Handler("done", "sosi_parsing", 0, parsed_data.raised)
                        /\ UNCHANGED tables
                   ELSE IF parsed_data.raised # None
                   THEN /\ handler' = Handler("raised", "sosi_parsing", 0, parsed_data.raised)
                        /\ UNCHANGED tables
                   ELSE LET r == import_commands_to_db(DB, parsed_data.value)
                        IN  IF r.ok
                            THEN /\ commands' = r.commands
                                 /\ users' = r.users
                                 /\ command_tasks' = r.command_tasks
                                 /\ user_tasks' = r.user_tasks
                                 /\ handler' = Handler("done", "sosi_parsing", 0, "committed")
                            ELSE /\ UNCHANGED tables
                                 /\ handler' = Handler("raised", "sosi_parsing", 0,
                                                       "MultipleResultsFound")

InitParse ==
    /\ commands = <<>>
    /\ users = <<>>
    /\ command_tasks = <<>>
    /\ user_tasks = <<>>
    /\ handler = Idle
    /\ google_sheet_id \in {"", "sheet"}
    /\ sheet \in {BlankWorkbook, RosterWorkbook}
    /\ last_toggle = NoToggle
    /\ call = NoCall
    /\ sessions = NoSessions

\* parses under every fate, between toggles of the first task of the first
\* team, written back to the workbook
NextParse ==
    \/ \E f \in ParseFates : SosiParsing(f)
    \/ \E t \in {1} : CommandScoreInRange(t) /\ ToggleCommandTask(t)
    \/ Sync("ok")

SpecParse == InitParse /\ [][NextParse]_vars

\* parses with and without credentials.json, whatever the requests to the
\* grid would have met
ConfigFates ==
    {ParseFate(FALSE, {}, None), ParseFate(FALSE, {"1"}, "open_by_key"),
     ParseFate(TRUE, {}, None), ParseFate(TRUE, {"1"}, None)}

\* parses between restarts of the bot with and without a sheet id, and
\* toggles of the first task of the first team
NextConfig ==
    \/ \E f \in ConfigFates : SosiParsing(f)
    \/ \E t \in {1} : CommandScoreInRange(t) /\ ToggleCommandTask(t)
    \/ Sync("ok")
    \/ \E id \in {"", "sheet"} : Configure(id)

SpecConfig == InitParse /\ [][NextConfig]_vars

\* parses that are served, between toggles of the first team task and of
\* the first personal task whose reverse-sync is served, refused, or
\* skipped for want of a sheet id
NextDrift ==
    \/ SosiParsing(ParseFate(TRUE, {}, None))
    \/ \E t \in {1} : UserScoreInRange(t) /\ ToggleUserTask(t)
    \/ \E t \in {1} : CommandScoreInRange(t) /\ ToggleCommandTask(t)
    \/ \E f \in {"ok", "APIError"} : Sync(f)
    \/ \E id \in {"", "sheet"} : Configure(id)

SpecDrift == InitParse /\ [][NextDrift]_vars

\* a configured bot on the workbook of the roster
InitSynced ==
    /\ commands = <<>>
    /\ users = <<>>
    /\ command_tasks = <<>>
    /\ user_tasks = <<>>
    /\ handler = Idle
    /\ google_sheet_id = "sheet"
    /\ sheet = RosterWorkbook
    /\ last_toggle = NoToggle
    /\ call = NoCall
    /\ sessions = NoSessions

\* the personal tasks toggled: the first task of the first member, the
\* first and the last task of the second
SyncedUserTasks == {1, USER_TASK_ROWS + 1, 2 * USER_TASK_ROWS}

\* parses that are served, between toggles, one at a time, whose
\* reverse-sync is served; nobody else writes to the workbook
NextSynced ==
    \/ SosiParsing(ParseFate(TRUE, {}, None))
    \/ \E t \in SyncedUserTasks : ToggleUserTask(t)
    \/ \E t \in {1} : ToggleCommandTask(t)
    \/ Sync("ok")

SpecSynced == InitSynced /\ [][NextSynced]_vars

----------------------------------------------------------------------------
(* Ranking Engine: api/main.py *)

\* the maximum of the personal score, as get_top_users has it
MAX_PERSONAL == 10

\* sum(u.score for u in ...) over the rows ids of users
RECURSIVE SumScores(_, _)
SumScores(db, ids) ==
    IF ids = {} THEN 0
    ELSE LET i == CHOOSE j \in ids : TRUE
         IN  db.users[i].score + SumScores(db, ids \ {i})

\* cmd.users, the relationship Command.users: the members of the team
CommandUsers(db, command_id) ==
    {i \in Ids(db.users) : db.users[i].command_id = command_id}

\* Command.total_score
total_score(db, command_id) ==
    db.commands[command_id].score + SumScores(db, CommandUsers(db, command_id))

\* tuples of integers, compared as Python compares tuples
RECURSIVE KeyLess(_, _)
KeyLess(a, b) ==
    IF a = <<>> \/ b = <<>> THEN a = <<>> /\ b # <<>>
    ELSE IF a[1] # b[1] THEN a[1] < b[1]
    ELSE KeyLess(Tail(a), Tail(b))

\* sorted(...) and list.sort(...): entries in ascending order of their key,
\* entries of equal key in the order they came in
RECURSIVE Insert(_, _)
Insert(e, sorted) ==
    IF sorted = <<>> THEN <<e>>
    ELSE IF KeyLess(e.key, sorted[Len(sorted)].key)
    THEN Insert(e, SubSeq(sorted, 1, Len(sorted) - 1)) \o <<sorted[Len(sorted)]>>
    ELSE sorted \o <<e>>

RECURSIVE StableSort(_)
StableSort(entries) ==
    IF entries = <<>> THEN <<>>
    ELSE Insert(entries[Len(entries)], StableSort(SubSeq(entries, 1, Len(entries) - 1)))

\* ORDER BY Command.number: the ids of the teams by ascending number
OrderByNumber(db) ==
    LET sorted == StableSort([i \in Ids(db.commands) |->
                                [key |-> <<db.commands[i].number>>, id |-> i]])
    IN  [k \in DOMAIN sorted |-> sorted[k].id]

\* f"Komanda {number}"
CommandLabel(number) == <<"Komanda", " ", ToString(number)>>

\* a leaderboard ordered by the team's own score
get_leaderboard_TeamScore(db) ==
    LET ordered == OrderByNumber(db)
        leaderboard ==
            [k \in DOMAIN ordered |->
                LET cmd == db.commands[ordered[k]]
                    users_score == SumScores(db, CommandUsers(db, ordered[k]))
                IN  [key |-> <<-cmd.score>>,
                     id |-> ordered[k],
                     number |-> cmd.number,
                     name |-> IF cmd.name = EmptyText THEN CommandLabel(cmd.number)
                              ELSE cmd.name,
                     team_score |-> cmd.score,
                     users_score |-> users_score,
                     total_score |-> cmd.score + users_score,
                     members_count |-> Cardinality(CommandUsers(db, ordered[k]))]]
        sorted == StableSort(leaderboard)
    IN  [i \in DOMAIN sorted |->
            [id |-> sorted[i].id, number |-> sorted[i].number, name |-> sorted[i].name,
             team_score |-> sorted[i].team_score, users_score |-> sorted[i].users_score,
             total_score |-> sorted[i].total_score,
             members_count |-> sorted[i].members_count, rank |-> i]]

\* GET /api/leaderboard: the list "leaderboard" of the response.
\* leaderboard.sort(key=total_score, reverse=True) keeps the entries of equal
\* total in their order, as a sort by the negated total does
get_leaderboard(db) ==
    LET ordered == OrderByNumber(db)
        leaderboard ==
            [k \in DOMAIN ordered |->
                LET cmd == db.commands[ordered[k]]
                    users_score == SumScores(db, CommandUsers(db, ordered[k]))
                    total == cmd.score + users_score
                IN  [key |-> <<-total>>,
                     id |-> ordered[k],
                     number |-> cmd.number,
                     name |-> IF cmd.name = EmptyText THEN CommandLabel(cmd.number)
                              ELSE cmd.name,
                     team_score |-> cmd.score,
                     users_score |-> users_score,
                     total_score |-> total,
                     members_count |-> Cardinality(CommandUsers(db, ordered[k]))]]
        sorted == StableSort(leaderboard)
    IN  [i \in DOMAIN sorted |->
            [id |-> sorted[i].id, number |-> sorted[i].number, name |-> sorted[i].name,
             team_score |-> sorted[i].team_score, users_score |-> sorted[i].users_score,
             total_score |-> sorted[i].total_score,
             members_count |-> sorted[i].members_count, rank |-> i]]

\* the stores the ranking is asked about: three teams and three members,
\* one in team 1 and two in team 2
RankedCommands(scores) ==
    [i \in 1..3 |->
        [number |-> i, name |-> IF i = 3 THEN EmptyText ELSE <<"team", ToString(i)>>,
         score |-> scores[i]]]
RankedUsers(scores) ==
    [i \in 1..3 |->
        [first_name |-> <<"Ivan">>, last_name |-> <<"Ivanov", ToString(i)>>,
         command_id |-> IF i = 1 THEN 1 ELSE 2, sheet_index |-> i - 1,
         score |-> scores[i]]]

TeamScores == {0, TEAM_TASK_POINTS, 2 * TEAM_TASK_POINTS}
MemberScores == {0, MAX_PERSONAL - 1, MAX_PERSONAL}

InitRanking ==
    /\ commands \in {RankedCommands(sc) : sc \in [1..3 -> TeamScores]}
    /\ users \in {RankedUsers(sc) : sc \in [1..3 -> MemberScores]}
    /\ command_tasks = <<>>
    /\ user_tasks = <<>>
    /\ handler = Idle
    /\ google_sheet_id = "sheet"
    /\ sheet = EmptySheet
    /\ last_toggle = NoToggle
    /\ call = NoCall
    /\ sessions = NoSessions

GetLeaderboard ==
    /\ call' = Returned(Call("get_leaderboard", <<>>),
                        [raised |-> None, value |-> get_leaderboard(DB)])
    /\ UNCHANGED <<tables, handler, google_sheet_id, sheet, last_toggle, sessions>>

\* sort_key of get_top_users: (priority1, priority2, priority3), or the
\* exception of reading user.max_reached_at.  priority3 is written as two
\* numbers, (0, timestamp) or (1, 0) for float('inf'), which keeps the order
sort_key(db, user) ==
    LET personal == user.score
        team_score == db.commands[user.command_id].score
    IN  IF personal = MAX_PERSONAL
        THEN IF MaxReachedAtRaises THEN [raised |-> "AttributeError"]
             ELSE [raised |-> None,
                   key |-> IF user.max_reached_at # None
                           THEN <<-personal, -team_score, 0, user.max_reached_at>>
                           ELSE <<-personal, -team_score, 1, 0>>]
        ELSE [raised |-> None, key |-> <<-personal, 0, 0, 0>>]

\* seq[:limit]
Slice(seq, limit) ==
    IF limit >= 0
    THEN SubSeq(seq, 1, IF limit < Len(seq) THEN limit ELSE Len(seq))
    ELSE SubSeq(seq, 1, IF Len(seq) + limit > 0 THEN Len(seq) + limit ELSE 0)

\* GET /api/users?limit=...: the list "users" of the response, or the
\* exception raised; order is the order in which select(User), which has
\* no ORDER BY, returns the rows
get_top_users(db, order, limit) ==
    LET keyed == [k \in DOMAIN order |->
                    LET r == sort_key(db, db.users[order[k]])
                    IN  IF r.raised # None THEN r
                        ELSE [raised |-> None, key |-> r.key, id |-> order[k]]]
    IN  IF AnyRaised(keyed) THEN [raised |-> "AttributeError"]
        ELSE LET sorted_users == Slice(StableSort(keyed), limit)
             IN  [raised |-> None,
                  value |-> [i \in DOMAIN sorted_users |->
                      LET u == db.users[sorted_users[i].id]
                          command == db.commands[u.command_id]
                      IN  [rank |-> i,
                           id |-> sorted_users[i].id,
                           name |-> u.last_name \o <<" ">> \o u.first_name,
                           score |-> u.score,
                           team_number |-> command.number,
                           team_name |-> IF command.name = EmptyText
                                         THEN CommandLabel(command.number)
                                         ELSE command.name]]]

\* the orders in which the rows of users may come back
RowOrders(db) ==
    {order \in [Ids(db.users) -> Ids(db.users)] :
        \A i, j \in Ids(db.users) : order[i] = order[j] => i = j}

\* the values of the query parameter limit; 10 is its default
Limits == {-1, 0, 1, 2, 10}

GetTopUsers(limit, order) ==
    /\ call' = Returned(Call("get_top_users", <<limit, order>>),
                        get_top_users(DB, order, limit))
    /\ UNCHANGED <<tables, handler, google_sheet_id, sheet, last_toggle, sessions>>

NextRanking ==
    \/ GetLeaderboard
    \/ \E limit \in Limits, order \in RowOrders(DB) : GetTopUsers(limit, order)

SpecRanking == InitRanking /\ [][NextRanking]_vars

----------------------------------------------------------------------------
(* Properties *)

\* a request to toggle an existing personal task has just been handled up to
\* its commit, or up to the exception that prevented it
UserToggleStep ==
    /\ Ready
    /\ handler'.op = "utask"
    /\ handler'.pc \in {"sync", "raised"}

\* the member row carries a reached-maximum timestamp
HasMaxReachedAt(user) ==
    "max_reached_at" \in DOMAIN user /\ user.max_reached_at # None

\* C1: every personal-task toggle flips exactly that task's completion flag
\* and changes the owning member's score by +1 (to Completed) or -1 (to
\* NotCompleted) in the same commit; no other task's flag changes.
C1_UserToggleFlipsAndScores ==
    [][UserToggleStep =>
        LET t == handler'.id
            u == user_tasks[t].user_id
        IN  /\ handler'.pc = "sync"
            /\ user_tasks'[t].is_completed = ~user_tasks[t].is_completed
            /\ users'[u].score = users[u].score
                    + (IF user_tasks[t].is_completed THEN -1 ELSE 1)
            /\ \A x \in Ids(user_tasks) \ {t} :
                    user_tasks'[x].is_completed = user_tasks[x].is_completed
            /\ \A x \in Ids(command_tasks) :
                    command_tasks'[x].is_completed = command_tasks[x].is_completed
    ]_vars

\* C7: a toggle to Completed that brings the member's score to exactly
\* MAX_PERSONAL_SCORE while the timestamp is unset commits with the timestamp
\* set; a timestamp that is already set is left unchanged.
C7_MaxReachedAtSet ==
    [][UserToggleStep =>
        LET t == handler'.id
            u == user_tasks[t].user_id
        IN  (~user_tasks[t].is_completed /\ users[u].score + 1 = MAX_PERSONAL_SCORE)
            => IF HasMaxReachedAt(users[u])
               THEN /\ handler'.pc = "sync"
                    /\ users'[u].max_reached_at = users[u].max_reached_at
               ELSE /\ handler'.pc = "sync"
                    /\ users'[u].score = MAX_PERSONAL_SCORE
                    /\ HasMaxReachedAt(users'[u])
    ]_vars

CommandToggleStep ==
    /\ Ready
    /\ handler'.op = "ctask"
    /\ handler'.pc = "sync"

\* C2: every team-task toggle flips exactly that task's completion flag and
\* changes the owning team's score by +3 (to Completed) or -3 (to
\* NotCompleted); no other task's flag and no other team's score changes.
C2_CommandToggleFlipsAndScores ==
    [][CommandToggleStep =>
        LET t == handler'.id
            c == command_tasks[t].command_id
        IN  /\ command_tasks'[t].is_completed = ~command_tasks[t].is_completed
            /\ commands'[c].score = commands[c].score
                    + (IF command_tasks[t].is_completed THEN -3 ELSE 3)
            /\ \A x \in Ids(command_tasks) \ {t} :
                    command_tasks'[x].is_completed = command_tasks[x].is_completed
            /\ \A x \in Ids(commands) \ {c} : commands'[x].score = commands[x].score
            /\ UNCHANGED <<users, user_tasks>>
    ]_vars

\* a team task was completed and then un-completed by toggles: the request
\* being served took the three points back
C2_Witness ==
    /\ handler.pc = "sync"
    /\ handler.op = "ctask"
    /\ ~command_tasks[handler.id].is_completed
    /\ commands[command_tasks[handler.id].command_id].score = 0
    /\ \E x \in Ids(command_tasks) :
            /\ command_tasks[x].is_completed
            /\ commands[command_tasks[x].command_id].score = 3

\* number of completed team tasks of team c among the rows cts
CompletedCommandTasks(cts, c) ==
    Cardinality({x \in Ids(cts) : cts[x].command_id = c /\ cts[x].is_completed})

\* the team-only score of team c among the rows cs (0 for a team not yet stored)
CommandScore(cs, c) == IF c \in Ids(cs) THEN cs[c].score ELSE 0

ScoreIsThreePerTask(cs, cts, c) ==
    CommandScore(cs, c) = 3 * CompletedCommandTasks(cts, c)

ReconcileStep ==
    /\ Ready
    /\ handler'.op = "sosi_parsing"

\* C4: the Reconciler never changes the score of an existing team or member
\* and never gives a member a timestamp; the teams and members it creates
\* have score 0.
C4_ReconcileKeepsScores ==
    [][ReconcileStep =>
        /\ \A c \in Ids(commands') :
                commands'[c].score = CommandScore(commands, c)
        /\ \A u \in Ids(users') :
                /\ users'[u].score = (IF u \in Ids(users) THEN users[u].score ELSE 0)
                /\ ~HasMaxReachedAt(users'[u])
    ]_vars

\* a reconcile has just been committed over a team and a member that hold
\* points, and it created a member
C4_Witness ==
    /\ handler.op = "sosi_parsing"
    /\ handler.pc = "done"
    /\ \E c \in Ids(commands) : commands[c].score = 3
    /\ Len(users) = 2
    /\ users[1].score = 1
    /\ users[2].score = 0

\* the store a reconcile leaves
Committed(r) ==
    [commands |-> r.commands, users |-> r.users,
     command_tasks |-> r.command_tasks, user_tasks |-> r.user_tasks]

RowsCreated(r) ==
    r.stats.commands_created + r.stats.users_created
        + r.stats.command_tasks_created + r.stats.user_tasks_created

SameScores(rows1, rows2) ==
    /\ Len(rows1) = Len(rows2)
    /\ \A i \in Ids(rows1) : rows1[i].score = rows2[i].score

\* C5: reconciling the same snapshot twice in a row creates no row on the
\* second pass and changes no score, whatever the store was before.
C5_SecondPassCreatesNothing ==
    \A g \in MemberGrids :
        LET first == import_commands_to_db(DB, ParsedData(g))
            second == import_commands_to_db(Committed(first), ParsedData(g))
        IN  first.ok =>
                /\ second.ok
                /\ RowsCreated(second) = 0
                /\ Len(second.command_tasks) = Len(first.command_tasks)
                /\ Len(second.user_tasks) = Len(first.user_tasks)
                /\ SameScores(second.commands, first.commands)
                /\ SameScores(second.users, first.users)

\* a reconcile has just been committed, two members and a team hold points,
\* and reconciling a snapshot with both members again changes nothing
C5_Witness ==
    /\ handler.op = "sosi_parsing"
    /\ handler.pc = "done"
    /\ Len(users) = 2
    /\ \E u \in Ids(users) : users[u].score # 0
    /\ \E c \in Ids(commands) : commands[c].score # 0
    /\ \E g \in MemberGrids :
            LET again == import_commands_to_db(DB, ParsedData(g))
            IN  /\ Len(ParsedData(g)[1].users) = 2
                /\ RowsCreated(again) = 0
                /\ Committed(again) = DB

\* the natural keys of the rows of store db
CommandKeys(db) == [i \in Ids(db.commands) |-> db.commands[i].number]
UserKeys(db) ==
    [i \in Ids(db.users) |->
        <<db.users[i].command_id, db.users[i].first_name, db.users[i].last_name>>]
CommandTaskKeys(db) ==
    [i \in Ids(db.command_tasks) |->
        <<db.command_tasks[i].command_id, db.command_tasks[i].task_number>>]
UserTaskKeys(db) ==
    [i \in Ids(db.user_tasks) |->
        <<db.user_tasks[i].user_id, db.user_tasks[i].task_number>>]

NoDuplicates(keys) ==
    \A i, j \in DOMAIN keys : keys[i] = keys[j] => i = j

OneRowPerKey(db) ==
    /\ NoDuplicates(CommandKeys(db))
    /\ NoDuplicates(UserKeys(db))
    /\ NoDuplicates(CommandTaskKeys(db))
    /\ NoDuplicates(UserTaskKeys(db))

\* every stored team has exactly the team tasks 1..NumCommandTasks
AllCommandTasks(db) ==
    \A c \in Ids(db.commands) :
        \A n \in 1..NumCommandTasks :
            Cardinality({i \in Ids(db.command_tasks) :
                            CommandTaskKeys(db)[i] = <<c, n>>}) = 1

\* the stored task with key <<owner, number>> has the snapshot's values
TaskAsInSnapshot(rows, keys, owner, task_data) ==
    \E i \in DOMAIN keys :
        /\ keys[i] = <<owner, task_data.number>>
        /\ rows[i].description = task_data.description
        /\ rows[i].is_completed = task_data.is_completed

UniqueInSnapshot(user_list, k) ==
    \A j \in DOMAIN user_list :
        (/\ user_list[j].first_name = user_list[k].first_name
         /\ user_list[j].last_name = user_list[k].last_name) => j = k

\* every team of the snapshot and every member whose name is unique within
\* its team is stored with the snapshot's task values
AsInSnapshot(db, parsed_data) ==
    \A k \in DOMAIN parsed_data :
        LET cmd_data == parsed_data[k]
        IN  \E c \in Ids(db.commands) :
                /\ db.commands[c].number = cmd_data.number
                /\ \A t \in DOMAIN cmd_data.tasks :
                        TaskAsInSnapshot(db.command_tasks, CommandTaskKeys(db), c,
                                         cmd_data.tasks[t])
                /\ \A m \in DOMAIN cmd_data.users :
                        UniqueInSnapshot(cmd_data.users, m) =>
                            \E u \in Ids(db.users) :
                                /\ UserKeys(db)[u] = <<c, cmd_data.users[m].first_name,
                                                          cmd_data.users[m].last_name>>
                                /\ \A t \in DOMAIN cmd_data.users[m].tasks :
                                        TaskAsInSnapshot(db.user_tasks, UserTaskKeys(db), u,
                                                         cmd_data.users[m].tasks[t])

\* C6: after a reconcile the store holds exactly one row per natural key
\* seen so far, every team has exactly its NumCommandTasks team tasks numbered
\* from 1, and for every team and every member whose name is unique within
\* its team in the snapshot, each stored task's description and completion
\* flag equal the snapshot's.
C6_StoreAsInSnapshot ==
    [][(ReconcileStep /\ handler'.pc = "done") =>
        /\ OneRowPerKey(DB')
        /\ AllCommandTasks(DB')
        /\ \E g \in MemberGrids :
                /\ AsInSnapshot(DB', ParsedData(g))
                /\ DB' = Committed(import_commands_to_db(DB, ParsedData(g)))
    ]_vars

\* a reconcile has just overwritten a flag that a toggle had set: the member
\* keeps the point of a task that the store now holds as not completed
C6_Witness ==
    /\ handler.op = "sosi_parsing"
    /\ handler.pc = "done"
    /\ Len(users) = 2
    /\ users[1].score = 1
    /\ \A i \in Ids(user_tasks) : ~user_tasks[i].is_completed
    /\ \E g \in MemberGrids : AsInSnapshot(DB, ParsedData(g))

\* the committed completion flag of the task of the request being served
ServedFlag ==
    IF handler.op = "utask" THEN user_tasks[handler.id].is_completed
    ELSE command_tasks[handler.id].is_completed

\* C9: a grid write is issued only after the toggle's commit has succeeded,
\* and it writes the committed status; a toggle whose commit fails issues
\* no grid write.
C9_WriteOnlyAfterCommit ==
    [][/\ sheet' # sheet =>
            /\ handler.pc = "sync"
            /\ handler.out = "committed"
            /\ handler.op = "utask" => last_toggle.id = handler.id
            /\ \A c \in StatusCells :
                    sheet'[c] # sheet[c] =>
                        sheet'[c].text = (IF ServedFlag THEN DoneText ELSE EmptyText)
       /\ handler'.pc = "raised" => (sheet' = sheet /\ UNCHANGED tables)
       /\ handler.pc = "raised" => sheet' = sheet
    ]_vars

\* a toggle has just failed before its commit, and the grid holds what an
\* earlier, committed toggle wrote
C9_Witness ==
    /\ handler.pc = "raised"
    /\ handler.op = "utask"
    /\ handler.out = "AttributeError"
    /\ \E c \in StatusCells : sheet[c] = [text |-> DoneText, bg |-> GREEN_COLOR]

SyncFailures == {"FileNotFoundError", "WorksheetNotFound", "ValueError", "APIError"}

\* C10: whatever way the reverse-sync write fails (credentials missing, sheet
\* missing, invalid slot, write refused), the handler goes on to its end and
\* the committed flag and score stay in the store unchanged.
C10_SyncFailureKeepsCommit ==
    /\ [](handler.pc = "sync" => \A f \in SyncFates : ENABLED Sync(f))
    /\ [][handler.pc = "sync" =>
            /\ handler'.pc = "done"
            /\ handler'.out \in SyncFailures \cup {"ok", "skipped"}
            /\ UNCHANGED tables
       ]_vars

\* the reverse-sync of a committed personal toggle has just failed for want
\* of credentials: the flag and the point are in the store
C10_Witness ==
    /\ handler.pc = "done"
    /\ handler.op = "utask"
    /\ handler.out = "FileNotFoundError"
    /\ last_toggle.n = 1
    /\ user_tasks[last_toggle.id].is_completed
    /\ users[user_tasks[last_toggle.id].user_id].score = last_toggle.score + 1

\* C11: for every team ordinal 1..10 and task number 1..7,
\* get_command_task_cell returns the 1-indexed status cell
\* (row + task + 1, column + 2) of the team's label position; for every
\* other ordinal it raises and returns no position.
C11_CommandTaskCell ==
    HasReturned("get_command_task_cell") =>
        LET n == call.args[1]
            t == call.args[2]
        IN  IF n \in 1..10
            THEN /\ call.out.raised = None
                 /\ call.out.row = COMMAND_POSITIONS[n][2] + t + 1
                 /\ call.out.col = COMMAND_POSITIONS[n][1] + 2
            ELSE /\ call.out.raised = "ValueError"
                 /\ DOMAIN call.out = {"raised"}

\* the status cell of the last task of the last team, Q16, has been returned
C11_Witness ==
    /\ HasReturned("get_command_task_cell")
    /\ call.args = <<10, 7>>
    /\ call.out = [raised |-> None, row |-> 16, col |-> 17]

\* C12: get_user_task_cell raises for every slot index outside 0..11,
\* negative or 12 and above, and for the slots 0..11 returns the 1-indexed
\* status cell of the slot's label position.
C12_UserTaskCell ==
    HasReturned("get_user_task_cell") =>
        LET i == call.args[1]
            t == call.args[2]
        IN  IF i \in 0..11
            THEN /\ call.out.raised = None
                 /\ call.out.row = USER_POSITIONS[i + 1][2] + t + 1
                 /\ call.out.col = USER_POSITIONS[i + 1][1] + 2
            ELSE call.out.raised # None

\* every way of writing a marker in upper and lower case
CaseVariants(marker) ==
    {[i \in DOMAIN marker |-> IF i \in S THEN UpperChar(marker[i]) ELSE marker[i]] :
        S \in SUBSET DOMAIN marker}

\* C15: a status text is parsed as completed if and only if it contains one
\* of the done markers in some mix of upper and lower case; blank and any
\* other text is parsed as not completed.
C15_CompletedIffMarker ==
    HasReturned("is_completed") =>
        (call.out <=> \E marker \in {MarkerSdelano, MarkerVypolneno} :
                         \E v \in CaseVariants(marker) : Contains(call.args[1], v))

\* a text with a marker in mixed case inside other characters was parsed
\* as completed
C15_Witness ==
    /\ HasReturned("is_completed")
    /\ call.args[1] = <<"n", "e", " ">> \o <<"v", "y", "p", "O", "L", "N", "E", "n", "o">> \o <<"!">>
    /\ call.out = TRUE

\* the cell (row, col), 0-indexed, is among the fetched rows
Fetches(all_values, row, col) ==
    row < Len(all_values) /\ col < Len(all_values[row + 1])

\* the text of a cell, empty when the cell was not fetched
TextAt(all_values, row, col) ==
    IF Fetches(all_values, row, col) THEN all_values[row + 1][col + 1] ELSE EmptyText

\* blank: missing, empty or whitespace only
IsBlank(text) == \A i \in DOMAIN text : text[i] \in Whitespace

\* the tasks parsed under the label cell (row, col) read every cell that was
\* not fetched as the empty text
MissingCellsAreEmpty(all_values, col, row, tasks, placeholder(_)) ==
    \A n \in DOMAIN tasks :
        /\ ~Fetches(all_values, row + n, col + 1) => ~tasks[n].is_completed
        /\ ~Fetches(all_values, row + n, col) => tasks[n].description = placeholder(n)

\* C16: for fetched rows of any shape (no rows, short rows, short columns) a
\* parse of a sheet never raises; a cell that was not fetched is read as
\* the empty text: its status is not completed, its description is the
\* placeholder, its team name the generated one, its member slot an empty seat.
C16_ShortSheetsParse ==
    /\ HasReturned("parse_commands_sheet") =>
            /\ call.out.raised = None
            /\ Len(call.out.value) = Len(command_positions)
            /\ \A k \in DOMAIN command_positions :
                    LET col == command_positions[k][1]
                        row == command_positions[k][2]
                        team == call.out.value[k]
                    IN  /\ ~Fetches(call.args[1], row, col) =>
                                team.name = GeneratedName(command_positions[k][3])
                        /\ DOMAIN team.tasks = 1..7
                        /\ MissingCellsAreEmpty(call.args[1], col, row, team.tasks,
                                                CommandTaskPlaceholder)
    /\ HasReturned("parse_users_sheet") =>
            /\ call.out.raised = None
            /\ \A k \in DOMAIN call.out.value :
                    LET member == call.out.value[k]
                        col == user_positions[member.sheet_index + 1][1]
                        row == user_positions[member.sheet_index + 1][2]
                    IN  /\ Fetches(call.args[1], row, col)
                        /\ DOMAIN member.tasks = 1..10
                        /\ MissingCellsAreEmpty(call.args[1], col, row, member.tasks,
                                                UserTaskPlaceholder)

\* a member sheet cut after its 12th row was parsed: the members of the
\* first two rows of slots are there, their last task is the placeholder
C16_Witness ==
    /\ HasReturned("parse_users_sheet")
    /\ Len(call.args[1]) = 12
    /\ call.out.raised = None
    /\ \E k \in DOMAIN call.out.value :
            /\ call.out.value[k].sheet_index = 4
            /\ call.out.value[k].tasks[10].description = UserTaskPlaceholder(10)
            /\ call.out.value[k].tasks[1].description = UserTaskPlaceholder(1)

\* C17: a parsed team name is the label cell's text when the cell is not
\* blank and the generated label when it is blank; a parsed description is
\* the cell's text when not blank and the placeholder when blank (blank:
\* missing, empty or whitespace only); no name or description is empty.
C17_NamesAndDescriptions ==
    HasReturned("parse_commands_sheet") =>
        \A k \in DOMAIN call.out.value :
            LET col == command_positions[k][1]
                row == command_positions[k][2]
                team == call.out.value[k]
                label == TextAt(call.args[1], row, col)
            IN  /\ team.name = (IF IsBlank(label) THEN GeneratedName(team.number)
                                ELSE Strip(label))
                /\ team.name # EmptyText
                /\ \A n \in DOMAIN team.tasks :
                        LET text == TextAt(call.args[1], row + n, col)
                        IN  /\ team.tasks[n].description =
                                    (IF IsBlank(text) THEN CommandTaskPlaceholder(n)
                                     ELSE Strip(text))
                            /\ team.tasks[n].description # EmptyText

\* C18: parse_users_sheet emits one member for each of the 12 slots whose
\* label cell is not blank, in slot order, and none for a blank slot; each
\* member carries the tasks 1..10 and the index of its slot in the fixed
\* table as sheet_index, whatever its place in the returned list.
C18_OneMemberPerOccupiedSlot ==
    HasReturned("parse_users_sheet") =>
        LET members == call.out.value
            occupied == {i \in 0..11 :
                            ~IsBlank(TextAt(call.args[1], user_positions[i + 1][2],
                                            user_positions[i + 1][1]))}
        IN  /\ Len(members) = Cardinality(occupied)
            /\ {members[k].sheet_index : k \in DOMAIN members} = occupied
            /\ \A j, k \in DOMAIN members :
                    j < k => members[j].sheet_index < members[k].sheet_index
            /\ \A k \in DOMAIN members :
                    /\ DOMAIN members[k].tasks = 1..10
                    /\ \A n \in 1..10 : members[k].tasks[n].number = n
                    /\ members[k].command_number = call.args[2]

\* a complete member sheet whose first slot is an empty seat was parsed: the
\* first member returned sits in slot 1
C18_Witness ==
    /\ HasReturned("parse_users_sheet")
    /\ Len(call.args[1]) = 33
    /\ IsBlank(TextAt(call.args[1], 0, 0))
    /\ Len(call.out.value) > 1
    /\ call.out.value[1].sheet_index = 1
    /\ call.out.value[1].last_name = <<"Ivanov">>
    /\ call.out.value[1].first_name = <<"Ivan">>

\* the workbook with text in the cell of sheet title at (row, col), 1-indexed
WithText(grid, title, cell, text) ==
    [grid EXCEPT ![<<title, cell.row, cell.col>>].text = text]

\* the parsed teams, or members, of two fetches differ in the flag of task
\* task_number of entry k, FALSE in the first and TRUE in the second, and in
\* nothing else
OnlyFlagDiffers(empty, done, k, task_number) ==
    /\ empty.raised = None /\ done.raised = None
    /\ k \in DOMAIN empty.value
    /\ ~empty.value[k].tasks[task_number].is_completed
    /\ done.value[k].tasks[task_number].is_completed
    /\ done.value =
         [empty.value EXCEPT ![k].tasks[task_number].is_completed = TRUE]

\* the resolver's cell of a team task is the cell whose text decides the
\* task's parsed status, and no other parsed value
CommandCellIsParsed(grid, command_number, task_number) ==
    LET cell == get_command_task_cell(command_number, task_number)
        Parsed(text) ==
            parse_commands_sheet(
                get_all_values(WithText(grid, CommandsSheet, cell, text), "komandy"))
        k == CHOOSE j \in DOMAIN command_positions :
                    command_positions[j][3] = command_number
    IN  /\ cell.raised = None
        /\ OnlyFlagDiffers(Parsed(EmptyText), Parsed(MarkerSdelano), k, task_number)
        /\ Parsed(EmptyText).value[k].number = command_number

\* the same for a personal task of an occupied slot, on the sheet named
\* after the team number
UserCellIsParsed(grid, command_number, user_index, task_number) ==
    LET cell == get_user_task_cell(user_index, task_number)
        Parsed(text) ==
            parse_users_sheet(
                get_all_values(WithText(grid, UsersSheet(command_number), cell, text),
                               ToString(command_number)),
                command_number)
        members == Parsed(EmptyText).value
        at == {j \in DOMAIN members : members[j].sheet_index = user_index}
    IN  /\ cell.raised = None
        /\ Parsed(EmptyText).raised = None
        /\ \A j \in at :
               OnlyFlagDiffers(Parsed(EmptyText), Parsed(MarkerSdelano), j, task_number)

\* the cells of the workbook that a step changes
Changed == {cell \in DOMAIN sheet : sheet'[cell] # sheet[cell]}

WrittenText(completed) == IF completed THEN DoneText ELSE EmptyText

CommandWriteStep ==
    /\ call.fn = None
    /\ call'.fn = "update_command_task_status"

UserWriteStep ==
    /\ call.fn = None
    /\ call'.fn = "update_user_task_status"

\* C13: the Parser and the Sheet Writer use the same coordinates: a write of
\* the status of task t of team n (1..10, 1..7) changes no cell but the one
\* on the team-task sheet whose text parse_commands_sheet reads as the
\* status of that task of that team, and a write of the status of task t
\* (1..10) of slot i (0..11) of a team changes no cell but the one on the
\* sheet named after the team number whose text parse_users_sheet reads as
\* the status of that task of that slot.
C13_SameCoordinates ==
    [][/\ CommandWriteStep =>
            LET n == call'.args[1]
                t == call'.args[2]
                cell == get_command_task_cell(n, t)
            IN  /\ call'.out.raised = None
                /\ Changed \subseteq {<<CommandsSheet, cell.row, cell.col>>}
                /\ sheet'[<<CommandsSheet, cell.row, cell.col>>].text
                      = WrittenText(call'.args[3])
                /\ CommandCellIsParsed(sheet', n, t)
       /\ UserWriteStep =>
            LET n == call'.args[1]
                i == call'.args[2]
                t == call'.args[3]
                cell == get_user_task_cell(i, t)
            IN  /\ call'.out.raised = None
                /\ Changed \subseteq {<<UsersSheet(n), cell.row, cell.col>>}
                /\ sheet'[<<UsersSheet(n), cell.row, cell.col>>].text
                      = WrittenText(call'.args[4])
                /\ UserCellIsParsed(sheet', n, i, t)]_vars

\* a write to the last task of the last team and a write to the last task
\* of the last slot of team 10, each to a cell that held another text
C13_Witness ==
    \/ /\ HasReturned("update_command_task_status")
       /\ call.args = <<10, COMMAND_TASK_ROWS, TRUE>>
       /\ sheet # BlankWorkbook
       /\ sheet[<<CommandsSheet, 16, 17>>].text = DoneText
    \/ /\ HasReturned("update_user_task_status")
       /\ call.args = <<10, 11, USER_TASK_ROWS, FALSE>>
       /\ sheet # BlankWorkbook
       /\ sheet[<<"10", 33, 11>>].text = EmptyText

\* C14: round trip of a completion state: after the Sheet Writer writes
\* state b for a team task, the parse of the team-task sheet gives that
\* task of that team the state b; after it writes state b for a personal
\* task of a slot, the parse of the team's member sheet gives that task of
\* the member of that slot the state b.
C14_WriteThenParse ==
    [][/\ (HasReturned("update_command_task_status") /\ call'.fn = "parse_commands_sheet") =>
            /\ call'.out.raised = None
            /\ \E k \in DOMAIN call'.out.value :
                  /\ call'.out.value[k].number = call.args[1]
                  /\ call'.out.value[k].tasks[call.args[2]].number = call.args[2]
                  /\ call'.out.value[k].tasks[call.args[2]].is_completed = call.args[3]
       /\ (HasReturned("update_user_task_status") /\ call'.fn = "parse_users_sheet") =>
            /\ call'.out.raised = None
            /\ \A k \in DOMAIN call'.out.value :
                  call'.out.value[k].sheet_index = call.args[2] =>
                      /\ call'.out.value[k].tasks[call.args[3]].number = call.args[3]
                      /\ call'.out.value[k].tasks[call.args[3]].is_completed = call.args[4]
      ]_vars

\* a parse after a write of "done" over a blank status cell: the member of
\* slot 11 comes back with task 10 completed
C14_Witness ==
    /\ HasReturned("parse_users_sheet")
    /\ call.out.raised = None
    /\ \E k \in DOMAIN call.out.value :
          /\ call.out.value[k].sheet_index = 11
          /\ call.out.value[k].tasks[USER_TASK_ROWS].is_completed
    /\ sheet[<<"10", 33, 11>>].text = DoneText
    /\ FilledWorkbook(0)[<<"10", 33, 11>>].text = EmptyText
    /\ \A cell \in DOMAIN sheet \ {<<"10", 33, 11>>} : sheet[cell] = FilledWorkbook(0)[cell]

\* /sosi_parsing has just been handled with a call of parse_all
Parsed ==
    /\ handler.op = "sosi_parsing"
    /\ HasReturned("parse_all")

\* the snapshot of the sheets that are found under fate f: the teams of the
\* team-task sheet, each with the members of its member sheet
FoundSheets(grid, f) ==
    LET found(title) == ReadSheet(grid, title, f).raised = None
        teams == IF found("komandy")
                 THEN parse_commands_sheet(get_all_values(grid, "komandy")).value
                 ELSE <<>>
    IN  [k \in DOMAIN teams |->
            [teams[k] EXCEPT !.users =
                IF found(ToString(teams[k].number))
                THEN parse_users_sheet(
                         get_all_values(grid, ToString(teams[k].number)),
                         teams[k].number).value
                ELSE <<>>]]

\* C19: when sheets referenced by the parse are not found (the team-task
\* sheet or member sheets) and no read is refused, parse_all returns a
\* snapshot, built from the sheets that are found.
C19_MissingSheetsSkipped ==
    (Parsed /\ call.args[2].credentials /\ call.args[2].failing = None) =>
        /\ call.out.raised = None
        /\ call.out = [raised |-> None, value |-> FoundSheets(sheet, call.args[2])]

\* a read is refused under fate f, and the parse gets as far as that read:
\* the opening of the spreadsheet, the team-task sheet, or a member sheet
\* of a spreadsheet that has its team-task sheet
ReadRefused(f) ==
    /\ f.credentials
    /\ f.failing # None
    /\ f.failing \in {"open_by_key", "komandy"} \/ "komandy" \notin f.missing

ParseStep ==
    /\ Ready
    /\ google_sheet_id # ""
    /\ handler'.op = "sosi_parsing"

\* C20: when a read of the parse is refused with an error other than
\* sheet-not-found, parse_all returns no snapshot and raises the error,
\* /sosi_parsing ends with that error raised, the Reconciler is not invoked
\* and the store is as it was; without credentials.json parse_all raises
\* FileNotFoundError, which /sosi_parsing reports, and the store is as it was.
C20_RefusedReadAborts ==
    [][ParseStep =>
        /\ ReadRefused(call'.args[2]) =>
                /\ call'.out = [raised |-> "APIError"]
                /\ handler' = Handler("raised", "sosi_parsing", 0, "APIError")
                /\ tables' = tables
        /\ ~call'.args[2].credentials =>
                /\ call'.out = [raised |-> "FileNotFoundError"]
                /\ handler' = Handler("done", "sosi_parsing", 0, "FileNotFoundError")
                /\ tables' = tables
    ]_vars

\* the read of member sheet "10" is refused after the team-task sheet and
\* member sheet "1" were parsed, over a store that holds teams, members and
\* a score
C20_Witness ==
    /\ Parsed
    /\ call.args[2] = ParseFate(TRUE, {}, "10")
    /\ handler.pc = "raised"
    /\ sheet[<<"1", 1, 1>>].text # EmptyText
    /\ Len(commands) = 10
    /\ Len(users) >= 1
    /\ \E c \in Ids(commands) : commands[c].score # 0

\* a /sosi_parsing request is handled
SosiParsingStep ==
    /\ Ready
    /\ handler'.op = "sosi_parsing"

\* C21: when no sheet id is configured, /sosi_parsing ends without a call
\* of parse_all; when credentials.json is missing, parse_all raises
\* FileNotFoundError whatever the fate of the requests to the grid, so none
\* was made; in both cases no snapshot is produced and the store is as it
\* was.
C21_NoConfigNoParse ==
    [][SosiParsingStep =>
        /\ google_sheet_id = "" =>
                /\ handler' = Handler("done", "sosi_parsing", 0, "no sheet id")
                /\ call' = call
                /\ tables' = tables
        /\ (google_sheet_id # "" /\ ~call'.args[2].credentials) =>
                /\ call'.fn = "parse_all"
                /\ call'.out = [raised |-> "FileNotFoundError"]
                /\ handler'.out = "FileNotFoundError"
                /\ tables' = tables
    ]_vars

\* a parse without credentials.json whose opening of the spreadsheet would
\* have been refused, and a parse request without a sheet id, each over a
\* store that holds teams
C21_Witness ==
    /\ handler.op = "sosi_parsing"
    /\ Len(commands) = 10
    /\ \/ /\ google_sheet_id = ""
          /\ handler.out = "no sheet id"
       \/ /\ google_sheet_id # ""
          /\ HasReturned("parse_all")
          /\ call.args[2] = ParseFate(FALSE, {"1"}, "open_by_key")
          /\ handler.out = "FileNotFoundError"

\* the entries of a list are in descending order of total, entries of equal
\* total in ascending order of team number
ByTotalThenNumber(board) ==
    \A i, j \in DOMAIN board :
        i < j => \/ board[i].total_score > board[j].total_score
                 \/ /\ board[i].total_score = board[j].total_score
                    /\ board[i].number < board[j].number

\* C22: the team leaderboard lists every team once, with total = team.score
\* + the sum of its members' scores, in descending order of total, teams of
\* equal total in ascending order of team number, with ranks 1..n in list
\* order.
C22_Leaderboard ==
    HasReturned("get_leaderboard") =>
        LET board == call.out.value
        IN  /\ call.out.raised = None
            /\ Len(board) = Len(commands)
            /\ \A c \in Ids(commands) :
                  \E i \in DOMAIN board :
                      /\ board[i].id = c
                      /\ board[i].number = commands[c].number
                      /\ board[i].total_score = total_score(DB, c)
                      /\ board[i].total_score = commands[c].score + board[i].users_score
            /\ ByTotalThenNumber(board)
            /\ \A i \in DOMAIN board : board[i].rank = i

\* the example of the specification, and a tie: team 1 with score 6 and a
\* member sum of 0 or 9, team 2 with score 3 and a member sum of 9 or 10,
\* team 3 with the total of team 1; team 2 is first where its total is larger
C22_Witness ==
    /\ HasReturned("get_leaderboard")
    /\ commands[1].score = 6 /\ commands[2].score = 3 /\ commands[3].score = 6
    /\ users[1].score = 0 /\ users[2].score = 9 /\ users[3].score = 0
    /\ call.out.value[1].number = 2 /\ call.out.value[1].total_score = 12
    /\ call.out.value[2].number = 1 /\ call.out.value[3].number = 3
    /\ call.out.value[2].total_score = call.out.value[3].total_score

\* member u is listed above member v in a top list: where v is listed, u is
\* listed before it
Above(top, u, v) ==
    \A j \in DOMAIN top :
        top[j].id = v => \E i \in DOMAIN top : i < j /\ top[i].id = u

AtMaximum(u) == users[u].score = MAX_PERSONAL

SecondKey(u) == -commands[users[u].command_id].score

\* member u reached the maximum before member v, or v has no timestamp
EarlierThan(u, v) ==
    /\ HasMaxReachedAt(users[u])
    /\ HasMaxReachedAt(users[v]) => users[u].max_reached_at < users[v].max_reached_at

C25_HigherScoreFirst ==
    HasReturned("get_top_users") =>
        /\ call.out.raised = None
        /\ \A u, v \in Ids(users) :
              users[u].score > users[v].score => Above(call.out.value, u, v)
        /\ Len(call.out.value) <= call.args[1]
        /\ \A i \in DOMAIN call.out.value : call.out.value[i].rank = i

\* the flag of the task of a session as the store holds it, and the score
\* of its owner
StoredFlag(s) ==
    IF s.op = "utask" THEN user_tasks[s.task_id].is_completed
    ELSE command_tasks[s.task_id].is_completed
StoredScore(s) ==
    IF s.op = "utask" THEN users[s.task.user_id].score
    ELSE commands[s.task.command_id].score

\* the points a toggle to completed gives
Delta(s) == IF s.op = "utask" THEN 1 ELSE TEAM_TASK_POINTS

\* request r commits a toggle of a task that another request has toggled
\* and committed since r loaded it
StaleCommit(r) ==
    /\ sessions[r].pc = "loaded"
    /\ sessions'[r].pc = "sync"
    /\ StoredFlag(sessions[r]) # sessions[r].task.is_completed

\* C26: when two toggles of one task both load the task before either
\* commits, the later commit loses an update: the store is left as the
\* earlier commit left it, with the flag flipped once from the value both
\* loaded and the score one delta from the score both loaded, and not with
\* the flag back at the loaded value and the score unchanged.
C26_LostUpdate ==
    [][\A r \in Requests :
        StaleCommit(r) =>
            LET s == sessions[r]
                loaded == s.task.is_completed
            IN  /\ tables' = tables
                /\ StoredFlag(s) = ~loaded
                /\ StoredScore(s) =
                      s.owner.score + (IF loaded THEN -Delta(s) ELSE Delta(s))
                /\ StoredScore(s) # s.owner.score
    ]_vars

\* both requests have committed a toggle of personal task 1 to completed,
\* neither has finished: the task is completed and its owner has one point
C26_Witness ==
    /\ \A r \in Requests :
          /\ sessions[r].pc = "sync"
          /\ sessions[r].op = "utask"
          /\ sessions[r].task_id = 1
          /\ sessions[r].task.is_completed
          /\ sessions[r].owner.score = 1
    /\ user_tasks[1].is_completed
    /\ users[user_tasks[1].user_id].score = 1

\* a /sosi_parsing request is handled and its reconcile commits
ReconcileCommits ==
    /\ Ready
    /\ handler' = Handler("done", "sosi_parsing", 0, "committed")

\* the rows of a snapshot for a team task and for a personal task of the
\* store: the task rows of that number of the team of that number, and of
\* the member of that name of that team
SnapshotCommandTasks(snapshot, t) ==
    {snapshot[k].tasks[n] :
        k \in {j \in DOMAIN snapshot :
                  snapshot[j].number = commands[command_tasks[t].command_id].number},
        n \in {i \in 1..COMMAND_TASK_ROWS : i = command_tasks[t].task_number}}
SnapshotUserTasks(snapshot, t) ==
    LET user == users[user_tasks[t].user_id]
        teams == {j \in DOMAIN snapshot :
                    snapshot[j].number = commands[user.command_id].number}
    IN  UNION {{snapshot[k].users[m].tasks[n] :
                  m \in {i \in DOMAIN snapshot[k].users :
                            /\ snapshot[k].users[i].first_name = user.first_name
                            /\ snapshot[k].users[i].last_name = user.last_name},
                  n \in {i \in 1..USER_TASK_ROWS : i = user_tasks[t].task_number}} :
               k \in teams}

\* C27: store and grid drift apart: when a task's flag in the store differs
\* from the grid (a toggle whose reverse-sync was refused, or skipped for
\* want of a sheet id), the next parse-and-reconcile sets the flag to the
\* grid's value and leaves the owner's score as the toggle left it, so this
\* reconcile changes a flag.
C27_ReconcileResetsFlagKeepsScore ==
    [][ReconcileCommits =>
        /\ \A t \in Ids(command_tasks) :
              \A row \in SnapshotCommandTasks(call'.out.value, t) :
                  row.is_completed # command_tasks[t].is_completed =>
                      /\ command_tasks'[t].is_completed = row.is_completed
                      /\ command_tasks'[t].is_completed # command_tasks[t].is_completed
                      /\ commands'[command_tasks[t].command_id].score
                            = commands[command_tasks[t].command_id].score
        /\ \A t \in Ids(user_tasks) :
              \A row \in SnapshotUserTasks(call'.out.value, t) :
                  row.is_completed # user_tasks[t].is_completed =>
                      /\ user_tasks'[t].is_completed = row.is_completed
                      /\ user_tasks'[t].is_completed # user_tasks[t].is_completed
                      /\ users'[user_tasks[t].user_id].score
                            = users[user_tasks[t].user_id].score
    ]_vars

\* a reconcile has committed after toggles to not completed that the grid
\* never saw: a team task is completed again with its team at -3 points,
\* and the first personal task is completed again with its member at -1
C27_Witness ==
    /\ handler = Handler("done", "sosi_parsing", 0, "committed")
    /\ sheet = RosterWorkbook
    /\ Len(user_tasks) > 0
    /\ user_tasks[1].is_completed
    /\ users[user_tasks[1].user_id].score = -1
    /\ \E t \in Ids(command_tasks) :
          /\ command_tasks[t].is_completed
          /\ commands[command_tasks[t].command_id].score = -TEAM_TASK_POINTS

\* C28: scores have no floor: a toggle to NotCompleted of a task whose
\* owner has no points takes its delta all the same, so the member's or
\* the team's score goes below zero.
C28_NoFloor ==
    [][/\ (UserToggleStep /\ handler'.pc = "sync") =>
            LET t == handler'.id
                u == user_tasks[t].user_id
            IN  (user_tasks[t].is_completed /\ users[u].score <= 0) =>
                    /\ users'[u].score = users[u].score - 1
                    /\ users'[u].score < 0
       /\ CommandToggleStep =>
            LET t == handler'.id
                c == command_tasks[t].command_id
            IN  (command_tasks[t].is_completed /\ commands[c].score <= 0) =>
                    /\ commands'[c].score = commands[c].score - TEAM_TASK_POINTS
                    /\ commands'[c].score < 0
    ]_vars

\* a personal task and a team task that the Reconciler created as
\* completed have been toggled off: the member is at -1 and the team at -3
C28_Witness ==
    /\ Len(user_tasks) > 0
    /\ ~user_tasks[1].is_completed
    /\ users[user_tasks[1].user_id].score = -1
    /\ ~command_tasks[1].is_completed
    /\ commands[command_tasks[1].command_id].score = -TEAM_TASK_POINTS

\* the store after the step
DBAfter == [commands |-> commands', users |-> users',
            command_tasks |-> command_tasks', user_tasks |-> user_tasks']

\* C29: no reconcile and no toggle deletes a row: every table keeps its
\* rows, under the same id and with the same identity, and only grows; over
\* a reconcile every stored member, in the grid or not, keeps its score and
\* its team, whose total stays what it was.
C29_NoRowDeleted ==
    [][/\ Len(commands') >= Len(commands)
       /\ Len(users') >= Len(users)
       /\ Len(command_tasks') >= Len(command_tasks)
       /\ Len(user_tasks') >= Len(user_tasks)
       /\ \A c \in Ids(commands) : commands'[c].number = commands[c].number
       /\ \A u \in Ids(users) :
            /\ users'[u].first_name = users[u].first_name
            /\ users'[u].last_name = users[u].last_name
            /\ users'[u].command_id = users[u].command_id
       /\ \A t \in Ids(command_tasks) :
            /\ command_tasks'[t].command_id = command_tasks[t].command_id
            /\ command_tasks'[t].task_number = command_tasks[t].task_number
       /\ \A t \in Ids(user_tasks) :
            /\ user_tasks'[t].user_id = user_tasks[t].user_id
            /\ user_tasks'[t].task_number = user_tasks[t].task_number
       /\ ReconcileStep =>
            /\ \A u \in Ids(users) :
                    /\ users'[u].score = users[u].score
                    /\ u \in CommandUsers(DBAfter, users[u].command_id)
            /\ \A c \in Ids(commands) :
                    total_score(DBAfter, c) = total_score(DB, c)
    ]_vars

\* a reconcile has just been committed whose grid no longer lists a member
\* who holds a point: the member's tasks keep the texts of an older edition
\* than the team's name, and the team's total counts the point
C29_Witness ==
    /\ handler.op = "sosi_parsing"
    /\ handler.pc = "done"
    /\ Len(users) = 2
    /\ \E u \in Ids(users) :
            LET c == users[u].command_id
            IN  /\ users[u].score = 1
                /\ \A t \in Ids(user_tasks) :
                        user_tasks[t].user_id = u =>
                            user_tasks[t].description[2] # commands[c].name[2]
                /\ total_score(DB, c) = commands[c].score + 1

\* a /sosi_parsing request has just ended with an exception
ImportRaised ==
    /\ handler'.pc = "raised"
    /\ handler'.op = "sosi_parsing"

\* C30: a reconcile is all-or-nothing: when the import of a request raises
\* before its commit, no row it created and no field it assigned is in the
\* store, which is left as it was.
C30_FailedImportLeavesStore ==
    [][ImportRaised => UNCHANGED tables]_vars

\* a request raised MultipleResultsFound at a member stored twice, after
\* it had given the team another name and its tasks other texts: the store
\* holds what it held when the request read it
C30_Witness ==
    \E q \in Requests :
        /\ sessions[q].pc = "raised"
        /\ sessions[q].out = "MultipleResultsFound"
        /\ handler = Handler("raised", "sosi_parsing", q, "MultipleResultsFound")
        /\ sessions[q].st.commands[1].name # commands[1].name
        /\ sessions[q].st.command_tasks # command_tasks
        /\ sessions[q].db = DB

\* two rows that differ in one column at most
SameBut(row, other, column) ==
    \A f \in DOMAIN row : f # column => row[f] = other[f]

\* C31: a personal-task toggle changes no team row and no team task, and a
\* team-task toggle changes no member row (score and timestamp included) and
\* no personal task; a toggle changes only the flag of the toggled task and
\* the score of its owner.
C31_ToggleFrame ==
    [][/\ UserToggleStep =>
            LET t == handler'.id
                u == user_tasks[t].user_id
            IN  /\ commands' = commands
                /\ command_tasks' = command_tasks
                /\ Len(users') = Len(users)
                /\ Len(user_tasks') = Len(user_tasks)
                /\ \A w \in Ids(users) : w # u => users'[w] = users[w]
                /\ \A x \in Ids(user_tasks) : x # t => user_tasks'[x] = user_tasks[x]
                /\ DOMAIN users'[u] = DOMAIN users[u]
                /\ SameBut(users'[u], users[u], "score")
                /\ SameBut(user_tasks'[t], user_tasks[t], "is_completed")
       /\ CommandToggleStep =>
            LET t == handler'.id
                c == command_tasks[t].command_id
            IN  /\ users' = users
                /\ user_tasks' = user_tasks
                /\ \A u \in Ids(users') : ~HasMaxReachedAt(users'[u])
                /\ Len(commands') = Len(commands)
                /\ Len(command_tasks') = Len(command_tasks)
                /\ \A d \in Ids(commands) : d # c => commands'[d] = commands[d]
                /\ \A x \in Ids(command_tasks) :
                        x # t => command_tasks'[x] = command_tasks[x]
                /\ SameBut(commands'[c], commands[c], "score")
                /\ SameBut(command_tasks'[t], command_tasks[t], "is_completed")
    ]_vars

\* a personal task has just been toggled to Completed for a member of a team
\* that holds the points of a team task: the member is at 1, the team at 3
C31_Witness ==
    /\ handler.op = "utask"
    /\ handler.pc = "sync"
    /\ user_tasks[handler.id].is_completed
    /\ LET u == user_tasks[handler.id].user_id
       IN  /\ users[u].score = 1
           /\ commands[users[u].command_id].score = TEAM_TASK_POINTS

\* the requests of the Sheet Writer that write to the grid
WriteRequests == {"update_acell", "format"}

\* a rate-limit delay stands between every write request of the sequence
\* and the write request that follows it
Delayed(requests) ==
    \A i, j \in DOMAIN requests :
        (i < j /\ requests[i] \in WriteRequests /\ requests[j] \in WriteRequests) =>
            \E k \in (i + 1)..(j - 1) : requests[k] = "sleep"

\* a call of the Sheet Writer has just returned
WriterStep ==
    /\ call'.fn \in {"update_command_task_status", "update_user_task_status"}
    /\ call'.returned

\* C32: the Sheet Writer's requests are serialized behind a fixed delay:
\* between any two consecutive write requests, the text write and the
\* background write of one call included, a rate-limit delay step occurs.
C32_WritesDelayed ==
    [][WriterStep => Delayed(call'.out.requests)]_vars

\* the number of member records of a snapshot
RECURSIVE CountUsers(_, _)
CountUsers(parsed_data, k) ==
    IF k > Len(parsed_data) THEN 0
    ELSE Len(parsed_data[k].users) + CountUsers(parsed_data, k + 1)

\* the counts import_commands_to_db is to return: rows created and rows
\* updated, for each kind of entity
StatsKeys ==
    {"commands_created", "commands_updated", "users_created", "users_updated",
     "command_tasks_created", "command_tasks_updated",
     "user_tasks_created", "user_tasks_updated"}

\* for teams and members created + updated is the number of records of the
\* snapshot, and each created count is the number of rows added
StatsCountRows(stats, parsed_data) ==
    /\ stats.commands_created + stats.commands_updated = Len(parsed_data)
    /\ stats.users_created + stats.users_updated = CountUsers(parsed_data, 1)
    /\ stats.commands_created = Len(commands') - Len(commands)
    /\ stats.users_created = Len(users') - Len(users)
    /\ stats.command_tasks_created = Len(command_tasks') - Len(command_tasks)
    /\ stats.user_tasks_created = Len(user_tasks') - Len(user_tasks)

\* C33: import_commands_to_db returns, for teams, members, team tasks and
\* personal tasks, the number of rows it created and the number it updated;
\* for teams and members created + updated is the number of records of the
\* snapshot, and each created count is the number of rows added to the store.
C33_StatsPerKind ==
    [][ReconcileCommits =>
        LET parsed_data == call'.out.value
            stats == import_commands_to_db(DB, parsed_data).stats
        IN  /\ StatsKeys \subseteq DOMAIN stats
            /\ StatsCountRows(stats, parsed_data)
    ]_vars

\* every stored flag is the flag the Parser reads in the task's cell
FlagsAsParsed ==
    \A snapshot \in {parse_all(sheet, ParseFate(TRUE, {}, None)).value} :
        /\ \A t \in Ids(command_tasks) :
              /\ SnapshotCommandTasks(snapshot, t) # {}
              /\ \A row \in SnapshotCommandTasks(snapshot, t) :
                      row.is_completed = command_tasks[t].is_completed
        /\ \A t \in Ids(user_tasks) :
              /\ SnapshotUserTasks(snapshot, t) # {}
              /\ \A row \in SnapshotUserTasks(snapshot, t) :
                      row.is_completed = user_tasks[t].is_completed

\* C34: when every reverse-sync write is served, nobody else edits the grid
\* and every member's sheet_index is the slot of its label, then after any
\* toggles run one at a time every stored flag equals the parse of its grid
\* cell, and a following parse-and-reconcile changes no flag.
C34_StoreAndGridAgree ==
    [][/\ handler.pc # "sync" => FlagsAsParsed
       /\ ReconcileCommits =>
            /\ \A t \in Ids(command_tasks) :
                    command_tasks'[t].is_completed = command_tasks[t].is_completed
            /\ \A t \in Ids(user_tasks) :
                    user_tasks'[t].is_completed = user_tasks[t].is_completed
    ]_vars

\* a parse-and-reconcile has committed after toggles of a team task and of
\* personal tasks: the first team task is no longer completed and the second
\* member has completed two tasks
C34_Witness ==
    /\ handler = Handler("done", "sosi_parsing", 0, "committed")
    /\ Len(user_tasks) = 2 * USER_TASK_ROWS
    /\ ~command_tasks[1].is_completed
    /\ commands[1].score = -TEAM_TASK_POINTS
    /\ users[2].score = 2
    /\ user_tasks[USER_TASK_ROWS + 1].is_completed
    /\ user_tasks[2 * USER_TASK_ROWS].is_completed

CompletedUserTasks(uts, u) ==
    Cardinality({x \in Ids(uts) : uts[x].user_id = u /\ uts[x].is_completed})

\* what the score of member u is ahead of the number of its completed tasks
ScoreLead(us, uts, u) == us[u].score - CompletedUserTasks(uts, u)

C37_DistinctSheetIndex ==
    \A u, w \in Ids(users) :
        (u # w /\ users[u].command_id = users[w].command_id)
            => users[u].sheet_index # users[w].sheet_index

\* request r commits a toggle to completed of a personal task; request q
\* has committed a toggle to completed of another task of the same member
\* since r loaded the member, and both loaded the member with one score
CommitsBeside(r, q) ==
    /\ sessions[r].pc = "loaded"
    /\ sessions'[r].pc = "sync"
    /\ sessions[r].op = "utask"
    /\ ~sessions[r].task.is_completed
    /\ sessions[q].pc \in {"sync", "done"}
    /\ sessions[q].op = "utask"
    /\ sessions[q].task.is_completed
    /\ sessions[q].task_id # sessions[r].task_id
    /\ sessions[q].task.user_id = sessions[r].task.user_id
    /\ sessions[q].owner.score = sessions[r].owner.score + 1
    /\ users[sessions[r].task.user_id].score = sessions[q].owner.score
    /\ user_tasks[sessions[q].task_id].is_completed

\* C38: two concurrent toggles to Completed of two different personal tasks
\* of one member leave the member's score increased by 2: no interleaving
\* ends with both flags set and the score increased by 1 only.
C38_BothToggledBothCounted ==
    [][\A r, q \in Requests :
        CommitsBeside(r, q) =>
            /\ user_tasks'[sessions[r].task_id].is_completed
            /\ user_tasks'[sessions[q].task_id].is_completed
            /\ users'[sessions[r].task.user_id].score = sessions[r].owner.score + 2
    ]_vars

\* no two rows of a table carry one natural key
NaturalKeysUnique ==
    /\ \A u, w \in Ids(users) :
            (/\ users[u].command_id = users[w].command_id
             /\ users[u].first_name = users[w].first_name
             /\ users[u].last_name = users[w].last_name) => u = w
    /\ \A t, x \in Ids(command_tasks) :
            (/\ command_tasks[t].command_id = command_tasks[x].command_id
             /\ command_tasks[t].task_number = command_tasks[x].task_number) => t = x
    /\ \A t, x \in Ids(user_tasks) :
            (/\ user_tasks[t].user_id = user_tasks[x].user_id
             /\ user_tasks[t].task_number = user_tasks[x].task_number) => t = x

\* C39: natural keys stay unique when reconciles of one snapshot run
\* beside each other: no interleaving leaves two member rows with one
\* (team, first name, last name) or two task rows with one (owner, task
\* number), and no later reconcile ends with MultipleResultsFound.
C39_NaturalKeysUnique ==
    /\ NaturalKeysUnique
    /\ handler.out # "MultipleResultsFound"

\* the 1-indexed cell (row, col) of a returned position
CellOf(position) == <<position.row, position.col>>

\* the 1-indexed label cell of a position (col, row) of the layout tables,
\* and the description cell of the task row under it
LabelCell(position) == <<position[2] + 1, position[1] + 1>>
DescriptionCell(position, task_number) ==
    <<position[2] + task_number + 1, position[1] + 1>>

\* C40: the resolver is injective and never targets a label cell: distinct
\* (team 1..10, task 1..7) pairs have distinct status cells on the team
\* sheet, distinct (slot 0..11, task 1..10) pairs have distinct status cells
\* on a member sheet, and no status cell is the label cell of a team or of a
\* member or the description cell of a task.
C40_ResolverInjective ==
    /\ (HasReturned("get_command_task_cell") /\ call.args[1] \in 1..10) =>
            \A n \in 1..10, t \in 1..COMMAND_TASK_ROWS :
                /\ <<n, t>> # call.args =>
                        CellOf(get_command_task_cell(n, t)) # CellOf(call.out)
                /\ LabelCell(COMMAND_POSITIONS[n]) # CellOf(call.out)
                /\ DescriptionCell(COMMAND_POSITIONS[n], t) # CellOf(call.out)
    /\ (HasReturned("get_user_task_cell") /\ call.args[1] \in 0..11) =>
            \A i \in 0..11, t \in 1..USER_TASK_ROWS :
                /\ <<i, t>> # call.args =>
                        CellOf(get_user_task_cell(i, t)) # CellOf(call.out)
                /\ LabelCell(USER_POSITIONS[i + 1]) # CellOf(call.out)
                /\ DescriptionCell(USER_POSITIONS[i + 1], t) # CellOf(call.out)

\* the status cell of the last task of slot 3, K11, has been returned: it
\* lies one row above the label row of slot 7 and one column right of the
\* descriptions of slot 3
C40_Witness ==
    /\ HasReturned("get_user_task_cell")
    /\ call.args = <<3, USER_TASK_ROWS>>
    /\ CellOf(call.out) = <<11, 11>>
    /\ LabelCell(USER_POSITIONS[8]) = <<12, 10>>

====
